---- MODULE Spec2Model ----
(***************************************************************************)
(* Model of the NASA C compliance tooling:                                 *)
(*   tools/compliance_checker.py         NASAComplianceChecker             *)
(*   tools/static_analysis_integration.py StaticAnalysisIntegrator         *)
(* Source text is modelled as a string, lines as strings, and the rules'   *)
(* regular expressions and substring tests character by character.         *)
(***************************************************************************)
EXTENDS Integers, Sequences, FiniteSets, TLC

VARIABLES
    \* NASAComplianceChecker and its caller
    code_lines,     \* self.code_lines
    violations,     \* self.violations
    score,          \* what calculate_compliance_score returned for the
                    \* current violation list: <<>> or <<n>>
    level,          \* likewise for get_compliance_level: <<>> or <<name>>
    pc,             \* the caller's position: "new", "loaded" or "checked"
    ref,            \* one analysis the caller kept: <<>> or <<[code_lines,
                    \* violations, score, level, list, same]>>; the first
                    \* four are history, list is what the list object that
                    \* check_all_rules returned holds now, and same tells
                    \* whether self.violations is still that object
    printout,       \* what generate_report returned for the current
                    \* violation list: <<>> or <<text>>
    \* StaticAnalysisIntegrator and its caller
    tools,          \* self.tools: tool -> BOOLEAN, <<>> while there is no object
    probed,         \* history: the tools whose probe was launched by __init__
    results,        \* the dict run_all_tools returned, in insertion order:
                    \* a sequence of [tool, findings]
    launched,       \* history: the tools whose analysis subprocess was launched
    parsed,         \* history: the tools whose parser was called
    report,         \* what generate_compliance_report returned: <<>> or <<text>>
    export,         \* what export_results_json built: <<>> or <<export_data>>
    raised,         \* the exception that left the last operation, "" for none
    ipc,            \* the caller's position: "none", "constructed", "ran"
                    \* (run_all_tools), "ran_one" (one adapter) or "parsed"
    ended,          \* history: the adapter or parser that was called by
                    \* itself and what it was given, <<>> or <<[tool, outcome]>>
    \* a second integrator run beside the first
    other,          \* its [tools, results, raised]
    focal,          \* the tool whose probe and subprocess behave alike in both
    \* the command lines
    cli             \* the finished run of a main(): <<>> or <<[program, file,
                    \* json, output, status, raised, printed, written]>>

checkerVars == <<code_lines, violations, score, level, pc, ref, printout>>

integratorVars == <<tools, probed, results, launched, parsed, report, export, raised, ipc, ended>>

pairVars == <<other, focal>>

mainVars == <<cli>>

vars == <<code_lines, violations, score, level, pc, ref, printout, tools, probed, results, launched, parsed, report, export, raised, ipc, ended, other, focal, cli>>

(***************************************************************************)
(* Evaluation helpers.  Let binds a name to a value computed once; the     *)
(* index searches halve their range, so their depth is logarithmic.        *)
(***************************************************************************)

\* F applied to the value of v
Let(v, F(_)) == CHOOSE r \in {F(a) : a \in {v}} : TRUE

\* the least index in lo..hi that satisfies P, or 0 (lo >= 1)
FirstIndex(lo, hi, P(_)) ==
    LET RECURSIVE In(_, _)
        In(a, b) ==
            IF a > b THEN 0
            ELSE IF a = b THEN (IF P(a) THEN a ELSE 0)
            ELSE Let(In(a, (a + b) \div 2),
                     LAMBDA l : IF l > 0 THEN l ELSE In((a + b) \div 2 + 1, b))
    IN  In(lo, hi)

\* the greatest index in lo..hi that satisfies P, or 0 (lo >= 1)
LastIndex(lo, hi, P(_)) ==
    LET RECURSIVE In(_, _)
        In(a, b) ==
            IF a > b THEN 0
            ELSE IF a = b THEN (IF P(a) THEN a ELSE 0)
            ELSE Let(In((a + b) \div 2 + 1, b),
                     LAMBDA h : IF h > 0 THEN h ELSE In(a, (a + b) \div 2))
    IN  In(lo, hi)

\* Piece(1) \o ... \o Piece(n) for strings
JoinFor(n, Piece(_)) ==
    LET RECURSIVE Range(_, _)
        Range(lo, hi) ==
            IF lo > hi THEN ""
            ELSE IF lo = hi THEN Piece(lo)
            ELSE Range(lo, (lo + hi) \div 2) \o Range((lo + hi) \div 2 + 1, hi)
    IN  Range(1, n)

\* Body(1) \o ... \o Body(n) for sequences: what a loop over 1..n appends,
\* in index order
ConcatFor(n, Body(_)) ==
    LET RECURSIVE Range(_, _)
        Range(lo, hi) ==
            IF lo > hi THEN <<>>
            ELSE IF lo = hi THEN Body(lo)
            ELSE Range(lo, (lo + hi) \div 2) \o Range((lo + hi) \div 2 + 1, hi)
    IN  Range(1, n)

(***************************************************************************)
(* Python str / re primitives used by the checker.                         *)
(***************************************************************************)

\* s[i-1:j] of a Python string, with i, j 1-indexed and inclusive: the slice
\* is clipped to the string and empty when nothing is left
Slice(s, i, j) ==
    IF (IF i < 1 THEN 1 ELSE i) > (IF j > Len(s) THEN Len(s) ELSE j) THEN ""
    ELSE SubSeq(s, IF i < 1 THEN 1 ELSE i, IF j > Len(s) THEN Len(s) ELSE j)

\* s[i] as a one-character string ("" outside the string).
Ch(s, i) == IF i >= 1 /\ i <= Len(s) THEN SubSeq(s, i, i) ELSE ""

LowerChars == <<"a","b","c","d","e","f","g","h","i","j","k","l","m",
                "n","o","p","q","r","s","t","u","v","w","x","y","z">>

UpperChars == <<"A","B","C","D","E","F","G","H","I","J","K","L","M",
                "N","O","P","Q","R","S","T","U","V","W","X","Y","Z">>

LowerSet == {LowerChars[k] : k \in 1..26}

UpperSet == {UpperChars[k] : k \in 1..26}

DigitChars == {"0","1","2","3","4","5","6","7","8","9"}

WordChars == LowerSet \cup UpperSet \cup DigitChars \cup {"_"}

SpaceChars == {" ", "\t", "\n", "\r", "\f"}

\* [a-z]
IsLower(c) == c \in LowerSet

\* \w of the re module on ASCII text: [a-zA-Z0-9_]
IsWord(c) == c \in WordChars

\* \s of the re module, and the characters str.strip() removes
IsSpace(c) == c \in SpaceChars

\* [^)]
IsNotClose(c) == c # "" /\ c # ")"

\* `sub in s`
Contains(s, sub) ==
    \E v \in {s} :
        \E i \in 1..(Len(v) - Len(sub) + 1) : SubSeq(v, i, i + Len(sub) - 1) = sub

\* s[i:].startswith(p), i 1-indexed
StartsWithAt(s, i, p) == Slice(s, i, i + Len(p) - 1) = p

\* s.startswith(p)
StartsWith(s, p) == \E v \in {s} : StartsWithAt(v, 1, p)

\* s.count(c) for a one-character c
Count(s, c) == Cardinality({i \in 1..Len(s) : Ch(s, i) = c})

\* end of a greedy run of a character class starting at i: the first index
\* >= i whose character is outside the class (Len(s)+1 at the end of s)
RunEnd(s, i, InClass(_)) ==
    Let(FirstIndex(i, Len(s), LAMBDA j : ~InClass(Ch(s, j))),
        LAMBDA j : IF j = 0 THEN Len(s) + 1 ELSE j)

\* s.strip()
Strip(s) ==
    Let(s, LAMBDA v :
        Let(FirstIndex(1, Len(v), LAMBDA i : ~IsSpace(Ch(v, i))), LAMBDA a :
            IF a = 0 THEN ""
            ELSE SubSeq(v, a, LastIndex(a, Len(v), LAMBDA i : ~IsSpace(Ch(v, i))))))

\* one character of s.lower()
LowerCh(c) ==
    IF c \in UpperSet
    THEN LowerChars[CHOOSE k \in 1..26 : UpperChars[k] = c]
    ELSE c

\* s.lower()
Lower(s) == Let(s, LAMBDA v : JoinFor(Len(v), LAMBDA i : LowerCh(Ch(v, i))))

\* s.split(sep) for a one-character sep: the piece after the start of s and
\* after every sep, up to the next sep; always at least one piece
SplitOn(s, sep) ==
    Let(s, LAMBDA v :
        ConcatFor(Len(v) + 1, LAMBDA q :
            IF q = 1 \/ Ch(v, q - 1) = sep
            THEN <<Slice(v, q, RunEnd(v, q, LAMBDA c : c # sep) - 1)>>
            ELSE <<>>))

\* code.split('\n'); "" gives <<"">>, one empty line
Split(code) == SplitOn(code, "\n")

\* '\n'.join(lines[:n])
JoinPrefix(lines, n) ==
    JoinFor(n, LAMBDA i : IF i = 1 THEN lines[1] ELSE "\n" \o lines[i])

\* line.strip().startswith('//')
IsLineComment(line) == StartsWith(Strip(line), "//")

(***************************************************************************)
(* Severity, Violation                                                     *)
(***************************************************************************)

MINOR == "minor"
MODERATE == "moderate"
MAJOR == "major"
CRITICAL == "critical"

Severity == {MINOR, MODERATE, MAJOR, CRITICAL}

Violation(rule_id, rule_name, description, severity, line_number, suggestion, code_snippet) ==
    [rule_id |-> rule_id, rule_name |-> rule_name, description |-> description,
     severity |-> severity, line_number |-> line_number,
     suggestion |-> suggestion, code_snippet |-> code_snippet]

(***************************************************************************)
(* The regular expressions of the rules.  Every quantified class is        *)
(* followed by a character outside it, so the greedy run is the only       *)
(* possible match and RunEnd computes it.  An index of 0 means no match.   *)
(***************************************************************************)

\* index of ")" when [^)]*\) matches right after the "(" at p
CloseParen(line, p) ==
    Let(RunEnd(line, p + 1, IsNotClose),
        LAMBDA c : IF Ch(line, c) = ")" THEN c ELSE 0)

\* (\w+)\s*\( at i: the index of "("
CallParenAt(line, i) ==
    Let(RunEnd(line, i, IsWord), LAMBDA a :
        IF a > i
        THEN Let(RunEnd(line, a, IsSpace),
                 LAMBDA b : IF Ch(line, b) = "(" THEN b ELSE 0)
        ELSE 0)

\* \s*\{ after the ")" at c
BraceFollows(line, c) == Ch(line, RunEnd(line, c + 1, IsSpace)) = "{"

\* \w+\s*\([^)]*\)\s*\{ at i
BlockHeadAt(line, i) ==
    \E p \in {CallParenAt(line, i)} :
        /\ p > 0
        /\ \E c \in {CloseParen(line, p)} : c > 0 /\ BraceFollows(line, c)

\* \w+\s+\w+\s*\( at i: the index of "("
SigParenAt(line, i) ==
    Let(RunEnd(line, i, IsWord), LAMBDA a :
        IF a > i
        THEN Let(RunEnd(line, a, IsSpace),
                 LAMBDA b : IF b > a THEN CallParenAt(line, b) ELSE 0)
        ELSE 0)

\* \w+\s+\w+\s*\(([^)]*)\)\s*\{? at i: the index of ")"
SigCloseAt(line, i) ==
    Let(SigParenAt(line, i),
        LAMBDA p : IF p > 0 THEN CloseParen(line, p) ELSE 0)

\* re.match(r'\w+\s+\w+\s*\([^)]*\)\s*\{', line)
IsFunctionStart(line) ==
    \E c \in {SigCloseAt(line, 1)} : c > 0 /\ BraceFollows(line, c)

\* re.match(r'\s*while\s*\(', line)
IsWhileHead(line) ==
    \E j \in {RunEnd(line, 1, IsSpace)} :
        /\ StartsWithAt(line, j, "while")
        /\ Ch(line, RunEnd(line, j + 5, IsSpace)) = "("

DeclTypes == {"int", "char", "float", "double", "long", "short",
              "unsigned", "signed"}

\* \s+\w at e: at least one space, then a word character
SpaceThenWord(line, e) ==
    \E s \in {RunEnd(line, e, IsSpace)} : s > e /\ IsWord(Ch(line, s))

\* re.match(r'\s*(int|char|float|double|long|short|unsigned|signed)\s+\w+', line)
IsDeclaration(line) ==
    \E j \in {RunEnd(line, 1, IsSpace)} :
        \E kw \in DeclTypes :
            StartsWithAt(line, j, kw) /\ SpaceThenWord(line, j + Len(kw))

\* (while|if)\s*\([^)]*=\s*[^)]*\) at i
AssignCondAt(line, i) ==
    \E kw \in {"while", "if"} :
        /\ StartsWithAt(line, i, kw)
        /\ \E p \in {RunEnd(line, i + Len(kw), IsSpace)} :
            /\ Ch(line, p) = "("
            /\ \E c \in {CloseParen(line, p)} :
                  c > 0 /\ \E k \in (p + 1)..(c - 1) : Ch(line, k) = "="

\* \b(int|char|float|double)\s+([a-z]{1,2})\b at i: the name matched, or ""
ShortNameAt(line, i) ==
    IF IsWord(Ch(line, i - 1)) THEN ""
    ELSE Let({kw \in {"int", "char", "float", "double"} : StartsWithAt(line, i, kw)},
             LAMBDA kws :
        IF kws = {} THEN ""
        ELSE Let(i + Len(CHOOSE kw \in kws : TRUE), LAMBDA e :
             Let(RunEnd(line, e, IsSpace), LAMBDA s :
                IF s = e THEN ""
                ELSE IF /\ IsLower(Ch(line, s)) /\ IsLower(Ch(line, s + 1))
                        /\ ~IsWord(Ch(line, s + 2))
                     THEN Slice(line, s, s + 1)
                ELSE IF IsLower(Ch(line, s)) /\ ~IsWord(Ch(line, s + 1))
                     THEN Slice(line, s, s)
                ELSE "")))

\* re.search(r'\bint\s+\w+', line)
HasBareInt(line) ==
    \E i \in 1..Len(line) :
        /\ ~IsWord(Ch(line, i - 1))
        /\ StartsWithAt(line, i, "int")
        /\ SpaceThenWord(line, i + 3)

\* re.match(r'void\s+\w+\s*\([^)]*\)\s*\{?', line)
IsVoidFunction(line) ==
    /\ StartsWith(line, "void")
    /\ \E s \in {RunEnd(line, 5, IsSpace)} :
          /\ s > 5
          /\ \E p \in {CallParenAt(line, s)} : p > 0 /\ CloseParen(line, p) > 0

(***************************************************************************)
(* NASAComplianceChecker: the fifteen rule checks.  Each takes the lines    *)
(* and gives the violations it appends, in the order it appends them.      *)
(***************************************************************************)

\* whether some line after line i (1-indexed) calls func_name outside a comment
CallsLater(lines, i, func_name) ==
    \E call \in {func_name \o "("} :
        \E j \in (i + 1)..Len(lines) :
            Contains(lines[j], call) /\ ~IsLineComment(lines[j])

\* re.search(r'(\w+)\s*\([^)]*\)\s*\{', line): group(1) of the leftmost
\* match, or "" when there is none (a match has a non-empty group)
FunctionNameIn(line) ==
    Let(FirstIndex(1, Len(line), LAMBDA k : BlockHeadAt(line, k)), LAMBDA at :
        IF at = 0 THEN "" ELSE Slice(line, at, RunEnd(line, at, IsWord) - 1))

\* rule 1 reporting a goto at the index of enumerate(self.code_lines)
check_rule_1_flow_control_from_zero(lines) ==
    LET Body(i) ==
            LET line == lines[i]
            IN  (IF Contains(line, "goto") /\ ~IsLineComment(line)
                 THEN <<Violation("rule_1", "Avoid Complex Flow Control",
                                  "Use of goto statement detected", CRITICAL, i - 1,
                                  "Replace goto with structured control flow",
                                  Strip(line))>>
                 ELSE <<>>)
             \o (IF /\ (Contains(line, "setjmp") \/ Contains(line, "longjmp"))
                    /\ ~IsLineComment(line)
                 THEN <<Violation("rule_1", "Avoid Complex Flow Control",
                                  "Use of setjmp/longjmp detected", CRITICAL, i - 1,
                                  "Use structured error handling instead",
                                  Strip(line))>>
                 ELSE <<>>)
    IN  ConcatFor(Len(lines), Body)

check_rule_1_flow_control(lines) ==
    LET Body(i) ==
            LET line == lines[i]
            IN  (IF Contains(line, "goto") /\ ~IsLineComment(line)
                 THEN <<Violation("rule_1", "Avoid Complex Flow Control",
                                  "Use of goto statement detected", CRITICAL, i,
                                  "Replace goto with structured control flow",
                                  Strip(line))>>
                 ELSE <<>>)
             \o (IF /\ (Contains(line, "setjmp") \/ Contains(line, "longjmp"))
                    /\ ~IsLineComment(line)
                 THEN <<Violation("rule_1", "Avoid Complex Flow Control",
                                  "Use of setjmp/longjmp detected", CRITICAL, i,
                                  "Use structured error handling instead",
                                  Strip(line))>>
                 ELSE <<>>)
             \o (IF \E func_name \in {FunctionNameIn(line)} :
                        func_name # "" /\ CallsLater(lines, i, func_name)
                 THEN <<Violation("rule_1", "Avoid Complex Flow Control",
                                  "Recursive function call detected", CRITICAL, i,
                                  "Use iterative approach instead of recursion",
                                  Strip(line))>>
                 ELSE <<>>)
    IN  ConcatFor(Len(lines), Body)

\* rule 2 with `elif` for its second `if`: one violation per line at most
check_rule_2_loop_bounds_once_per_line(lines) ==
    LET Body(i) ==
            LET line == lines[i]
            IN  IF /\ IsWhileHead(line)
                   /\ ~\E pattern \in {"MAX_", "count", "size", "length"} :
                           Contains(line, pattern)
                THEN <<Violation("rule_2", "Fixed Loop Bounds",
                                 "Loop without clear upper bound detected", MAJOR, i,
                                 "Add compile-time determinable upper bound",
                                 Strip(line))>>
                ELSE IF /\ Contains(line, "while")
                        /\ \E pattern \in {"true", "1", "!0"} : Contains(line, pattern)
                THEN <<Violation("rule_2", "Fixed Loop Bounds",
                                 "Potential infinite loop detected", MAJOR, i,
                                 "Add explicit loop counter and bounds checking",
                                 Strip(line))>>
                ELSE <<>>
    IN  ConcatFor(Len(lines), Body)

\* rule 2 taking a digit in the loop head for its bound: no violation for a
\* while line that holds a 1
check_rule_2_loop_bounds_digit_bound(lines) ==
    LET Body(i) ==
            LET line == lines[i]
            IN  (IF /\ IsWhileHead(line)
                    /\ ~\E pattern \in {"MAX_", "count", "size", "length", "1"} :
                            Contains(line, pattern)
                 THEN <<Violation("rule_2", "Fixed Loop Bounds",
                                  "Loop without clear upper bound detected", MAJOR, i,
                                  "Add compile-time determinable upper bound",
                                  Strip(line))>>
                 ELSE <<>>)
             \o (IF /\ Contains(line, "while")
                    /\ \E pattern \in {"true", "!0"} : Contains(line, pattern)
                 THEN <<Violation("rule_2", "Fixed Loop Bounds",
                                  "Potential infinite loop detected", MAJOR, i,
                                  "Add explicit loop counter and bounds checking",
                                  Strip(line))>>
                 ELSE <<>>)
    IN  ConcatFor(Len(lines), Body)

check_rule_2_loop_bounds(lines) ==
    LET Body(i) ==
            LET line == lines[i]
            IN  (IF /\ IsWhileHead(line)
                    /\ ~\E pattern \in {"MAX_", "count", "size", "length"} :
                            Contains(line, pattern)
                 THEN <<Violation("rule_2", "Fixed Loop Bounds",
                                  "Loop without clear upper bound detected", MAJOR, i,
                                  "Add compile-time determinable upper bound",
                                  Strip(line))>>
                 ELSE <<>>)
             \o (IF /\ Contains(line, "while")
                    /\ \E pattern \in {"true", "1", "!0"} : Contains(line, pattern)
                 THEN <<Violation("rule_2", "Fixed Loop Bounds",
                                  "Potential infinite loop detected", MAJOR, i,
                                  "Add explicit loop counter and bounds checking",
                                  Strip(line))>>
                 ELSE <<>>)
    IN  ConcatFor(Len(lines), Body)

check_rule_3_dynamic_memory(lines) ==
    LET Body(i) ==
            LET line == lines[i]
            IN  IF /\ \E func \in {"malloc", "calloc", "realloc", "free"} :
                          Contains(line, func)
                   /\ ~IsLineComment(line)
                THEN <<Violation("rule_3", "No Dynamic Memory",
                                 "Dynamic memory allocation detected", CRITICAL, i,
                                 "Use static allocation or stack-based allocation",
                                 Strip(line))>>
                ELSE <<>>
    IN  ConcatFor(Len(lines), Body)

\* len([p.strip() for p in params.split(',') if p.strip()])
ParamCount(params) ==
    Let(SplitOn(params, ","), LAMBDA pieces :
        Cardinality({k \in 1..Len(pieces) : Strip(pieces[k]) # ""}))

\* re.search(r'\w+\s+\w+\s*\(([^)]*)\)\s*\{?', line): the parameter count of
\* group(1) of the leftmost match, or 0 when there is none
SignatureParamCount(line) ==
    Let(FirstIndex(1, Len(line), LAMBDA k : SigCloseAt(line, k) > 0), LAMBDA at :
        IF at = 0 THEN 0
        ELSE ParamCount(Slice(line, SigParenAt(line, at) + 1,
                              SigCloseAt(line, at) - 1)))

check_rule_4_function_parameters(lines) ==
    LET Body(i) ==
            LET line == lines[i]
            IN  Let(SignatureParamCount(line), LAMBDA param_count :
                    IF param_count > 2
                    THEN <<Violation("rule_4", "Function Parameters",
                                     "Function with " \o ToString(param_count)
                                         \o " parameters detected", MAJOR, i,
                                     "Use structure to group related parameters",
                                     Strip(line))>>
                    ELSE <<>>)
    IN  ConcatFor(Len(lines), Body)

check_rule_5_pointer_dereferencing(lines) ==
    LET Body(i) ==
            LET line == lines[i]
            IN  IF Contains(line, "***")
                THEN <<Violation("rule_5", "Pointer Dereferencing",
                                 "More than 2 levels of pointer indirection detected",
                                 MAJOR, i,
                                 "Limit pointer indirection to 2 levels maximum",
                                 Strip(line))>>
                ELSE <<>>
    IN  ConcatFor(Len(lines), Body)

(***************************************************************************)
(* The function scanners (rule 6, rule 7, function length) walk the lines  *)
(* with the variables in_function and function_start.  A line matching     *)
(* the signature pattern sets in_function, records function_start and      *)
(* `continue`s; any other line that is exactly "}" after strip() clears    *)
(* in_function.  The operators below give the variables' values on entry   *)
(* to the iteration for line i.                                            *)
(***************************************************************************)

\* function_start on entry to iteration i: the last signature line before i
\* (0, the initial value, when there is none)
FunctionStartAt(lines, i) ==
    LastIndex(1, i - 1, LAMBDA k : IsFunctionStart(lines[k]))

\* in_function on entry to iteration i: set by the last signature line and
\* not cleared by a "}" line since
InFunctionAt(lines, i) ==
    \E s \in {FunctionStartAt(lines, i)} :
        s > 0 /\ \A k \in (s + 1)..(i - 1) : Strip(lines[k]) # "}"

\* a function end taken at any line that ends with a closing brace
FunctionEndsAt_brace_last(lines, i) ==
    /\ ~IsFunctionStart(lines[i])
    /\ Let(Strip(lines[i]), LAMBDA stripped :
          stripped # "" /\ Ch(stripped, Len(stripped)) = "}")
    /\ InFunctionAt(lines, i)

\* `line.strip() == '}' and in_function` in iteration i, which the scanners
\* reach only for a line that is not a signature line
FunctionEndsAt(lines, i) ==
    /\ ~IsFunctionStart(lines[i])
    /\ Strip(lines[i]) = "}"
    /\ InFunctionAt(lines, i)

\* allowance of lines after the function start for declarations
DeclarationWindow == 2

check_rule_6_variable_declarations(lines) ==
    LET Body(i) ==
            LET line == lines[i]
            IN  IF /\ IsDeclaration(line)
                   /\ ~IsFunctionStart(line)
                   /\ InFunctionAt(lines, i)
                   /\ i > FunctionStartAt(lines, i) + DeclarationWindow
                THEN <<Violation("rule_6", "Variable Declarations",
                         "Variable declaration may not be at scope beginning",
                         MINOR, i,
                         "Move all variable declarations to beginning of scope",
                         Strip(line))>>
                ELSE <<>>
    IN  ConcatFor(Len(lines), Body)

\* return_count after the counting step of iteration i: reset to 0 by the
\* last signature line, then incremented by every line since, up to line i,
\* that was scanned with in_function set, contains `return` and is no comment
ReturnCountAt(lines, i) ==
    Cardinality({k \in (FunctionStartAt(lines, i) + 1)..i :
                    /\ Contains(lines[k], "return")
                    /\ ~IsLineComment(lines[k])
                    /\ InFunctionAt(lines, k)})

\* rule 7 reporting at the line that closes the function
check_rule_7_single_return_at_close(lines) ==
    LET Body(i) ==
            IF ~FunctionEndsAt(lines, i) THEN <<>>
            ELSE Let(ReturnCountAt(lines, i), LAMBDA return_count :
                    IF return_count > 1
                    THEN <<Violation("rule_7", "Single Return Point",
                             "Function with " \o ToString(return_count)
                                 \o " return statements detected",
                             MODERATE, i,
                             "Use single return point with result variable",
                             Strip(lines[i]))>>
                    ELSE <<>>)
    IN  ConcatFor(Len(lines), Body)

check_rule_7_single_return(lines) ==
    LET Body(i) ==
            IF ~FunctionEndsAt(lines, i) THEN <<>>
            ELSE Let(ReturnCountAt(lines, i), LAMBDA return_count :
                 Let(FunctionStartAt(lines, i), LAMBDA function_start :
                    IF return_count > 1
                    THEN <<Violation("rule_7", "Single Return Point",
                             "Function with " \o ToString(return_count)
                                 \o " return statements detected",
                             MODERATE, function_start,
                             "Use single return point with result variable",
                             Strip(lines[function_start]))>>
                    ELSE <<>>))
    IN  ConcatFor(Len(lines), Body)

\* a slip of `or` for `and` in the test of rule 8
IsOtherDirectiveOr(stripped) ==
    \E v \in {stripped} : StartsWith(v, "#") \/ ~StartsWith(v, "#include")

\* line.strip().startswith('#') and not line.strip().startswith('#include')
IsOtherDirective(stripped) ==
    \E v \in {stripped} : StartsWith(v, "#") /\ ~StartsWith(v, "#include")

check_rule_8_preprocessor(lines) ==
    LET Body(i) ==
            LET line == lines[i]
            IN  IF IsOtherDirective(Strip(line))
                THEN <<Violation("rule_8", "Preprocessor Usage",
                                 "Preprocessor directive other than #include detected",
                                 MINOR, i,
                                 "Use const declarations instead of #define",
                                 Strip(line))>>
                ELSE <<>>
    IN  ConcatFor(Len(lines), Body)

check_rule_9_assignment_expressions(lines) ==
    LET Body(i) ==
            LET line == lines[i]
            IN  IF \E k \in 1..Len(line) : AssignCondAt(line, k)
                THEN <<Violation("rule_9", "Assignment in Expressions",
                                 "Assignment in conditional expression detected",
                                 MODERATE, i,
                                 "Separate assignment from condition checking",
                                 Strip(line))>>
                ELSE <<>>
    IN  ConcatFor(Len(lines), Body)

check_rule_10_multiple_assignments(lines) ==
    LET Body(i) ==
            LET line == lines[i]
            IN  IF Count(line, "=") > 1 /\ ~Contains(line, "==")
                THEN <<Violation("rule_10", "Multiple Assignments",
                                 "Multiple assignments in single statement detected",
                                 MINOR, i,
                                 "Use separate assignment statements",
                                 Strip(line))>>
                ELSE <<>>
    IN  ConcatFor(Len(lines), Body)

\* re.search(r'\b(int|char|float|double)\s+([a-z]{1,2})\b', line): group(2)
\* of the leftmost match, or "" when there is none
ShortNameIn(line) ==
    Let(FirstIndex(1, Len(line), LAMBDA k : ShortNameAt(line, k) # ""),
        LAMBDA at : IF at = 0 THEN "" ELSE ShortNameAt(line, at))

check_naming_conventions(lines) ==
    LET Body(i) ==
            LET line == lines[i]
            IN  Let(ShortNameIn(line), LAMBDA var_name :
                    IF var_name # "" /\ Len(var_name) < 3
                    THEN <<Violation("style_naming", "Naming Conventions",
                                     "Variable name '" \o var_name \o "' is too short",
                                     MINOR, i, "Use descriptive variable names",
                                     Strip(line))>>
                    ELSE <<>>)
    IN  ConcatFor(Len(lines), Body)

\* longest function body, in lines, that is not reported
FunctionLengthLimit == 50

\* line_count after the counting step of iteration i: reset to 0 by the last
\* signature line, then incremented by every line since, up to line i, that
\* was scanned with in_function set
LineCountAt(lines, i) ==
    Cardinality({k \in (FunctionStartAt(lines, i) + 1)..i :
                    InFunctionAt(lines, k)})

check_function_length(lines) ==
    LET Body(i) ==
            IF ~FunctionEndsAt(lines, i) THEN <<>>
            ELSE Let(LineCountAt(lines, i), LAMBDA line_count :
                 Let(FunctionStartAt(lines, i), LAMBDA function_start :
                    IF line_count > FunctionLengthLimit
                    THEN <<Violation("style_function_length", "Function Length",
                             "Function is " \o ToString(line_count)
                                 \o " lines long (exceeds 50 line limit)",
                             MODERATE, function_start,
                             "Break function into smaller functions",
                             Strip(lines[function_start]))>>
                    ELSE <<>>))
    IN  ConcatFor(Len(lines), Body)

\* range(max(0, i-3), i) over the 0-indexed list
CommentWindow == 3

\* the 1-indexed lines that range(max(0, i - 3), i) visits for the signature
\* at 1-indexed line i: lines[j] for 0-indexed j is line j + 1
CommentScanLines(i) ==
    {j + 1 : j \in (IF i - CommentWindow > 0 THEN i - CommentWindow ELSE 0)..(i - 1)}

check_comment_coverage(lines) ==
    LET Body(i) ==
            LET line == lines[i]
                has_comment ==
                    \E j \in CommentScanLines(i) :
                        \E stripped \in {Strip(lines[j])} :
                            \/ StartsWith(stripped, "//")
                            \/ StartsWith(stripped, "/*")
            IN  IF SigCloseAt(line, 1) > 0 /\ ~has_comment
                THEN <<Violation("style_comments", "Comment Coverage",
                                 "Function without header comment detected",
                                 MINOR, i,
                                 "Add function header comment explaining purpose and parameters",
                                 Strip(line))>>
                ELSE <<>>
    IN  ConcatFor(Len(lines), Body)

\* range(i, min(i+20, len(self.lines)))
ErrorHandlingWindow == 20

check_error_handling(lines) ==
    LET Body(i) ==
            LET line == lines[i]
                last == IF i + ErrorHandlingWindow < Len(lines)
                        THEN i + ErrorHandlingWindow ELSE Len(lines)
                has_error_handling ==
                    \E j \in i..(last - 1) :
                        \/ Contains(Lower(lines[j + 1]), "error")
                        \/ Contains(lines[j + 1], "return")
            IN  IF IsVoidFunction(line) /\ ~has_error_handling
                THEN <<Violation("style_error_handling", "Error Handling",
                                 "Void function without apparent error handling",
                                 MINOR, i,
                                 "Consider returning error codes or implementing error handling",
                                 Strip(line))>>
                ELSE <<>>
    IN  ConcatFor(Len(lines), Body)

check_type_safety(lines) ==
    LET Body(i) ==
            LET line == lines[i]
            IN  IF /\ HasBareInt(line)
                   /\ ~Contains(JoinPrefix(lines, i), "stdint.h")
                THEN <<Violation("style_type_safety", "Type Safety",
                                 "Use of implicit integer type 'int'", MINOR, i,
                                 "Use explicit integer types from stdint.h",
                                 Strip(line))>>
                ELSE <<>>
    IN  ConcatFor(Len(lines), Body)

\* what the rule checks append, in call order, to the list they are given
RunAllChecks(start, lines) ==
    start
    \o check_rule_1_flow_control(lines)
    \o check_rule_2_loop_bounds(lines)
    \o check_rule_3_dynamic_memory(lines)
    \o check_rule_4_function_parameters(lines)
    \o check_rule_5_pointer_dereferencing(lines)
    \o check_rule_6_variable_declarations(lines)
    \o check_rule_7_single_return(lines)
    \o check_rule_8_preprocessor(lines)
    \o check_rule_9_assignment_expressions(lines)
    \o check_rule_10_multiple_assignments(lines)
    \o check_naming_conventions(lines)
    \o check_function_length(lines)
    \o check_comment_coverage(lines)
    \o check_error_handling(lines)
    \o check_type_safety(lines)

(***************************************************************************)
(* Scoring and classification                                              *)
(***************************************************************************)

\* a penalty table with the weights of moderate and major exchanged
severity_penalties_exchanged(severity) ==
    CASE severity = MINOR -> 2
      [] severity = MODERATE -> 10
      [] severity = MAJOR -> 5
      [] severity = CRITICAL -> 15
      [] OTHER -> 5

\* severity_penalties.get(severity, 5)
severity_penalties(severity) ==
    CASE severity = MINOR -> 2
      [] severity = MODERATE -> 5
      [] severity = MAJOR -> 10
      [] severity = CRITICAL -> 15
      [] OTHER -> 5

\* the value of base_score after the loop has subtracted the penalty of
\* violations[lo..hi] from b
RECURSIVE SubtractPenalties(_, _, _, _)
SubtractPenalties(b, vs, lo, hi) ==
    IF lo > hi THEN b
    ELSE IF lo = hi THEN b - severity_penalties(vs[lo].severity)
    ELSE SubtractPenalties(SubtractPenalties(b, vs, lo, (lo + hi) \div 2),
                           vs, (lo + hi) \div 2 + 1, hi)

\* the score without the clamp max(0, base_score)
calculate_compliance_score_unclamped(vs) ==
    IF vs = <<>> THEN 100 ELSE SubtractPenalties(100, vs, 1, Len(vs))

\* the score with the penalty loop starting at the second violation
calculate_compliance_score_skip_first(vs) ==
    IF vs = <<>> THEN 100
    ELSE Let(SubtractPenalties(100, vs, 2, Len(vs)),
             LAMBDA base_score : IF base_score > 0 THEN base_score ELSE 0)

calculate_compliance_score(vs) ==
    IF vs = <<>> THEN 100
    ELSE Let(SubtractPenalties(100, vs, 1, Len(vs)),
             LAMBDA base_score : IF base_score > 0 THEN base_score ELSE 0)

ComplianceLevels == {"fully_compliant", "minor_issues", "moderate_issues", "major_issues", "non_compliant"}

\* the classification with > for >= at every threshold
get_compliance_level_strict(vs) ==
    Let(calculate_compliance_score(vs), LAMBDA s :
        IF s > 90 THEN "fully_compliant"
        ELSE IF s > 80 THEN "minor_issues"
        ELSE IF s > 70 THEN "moderate_issues"
        ELSE IF s > 60 THEN "major_issues"
        ELSE "non_compliant")

get_compliance_level(vs) ==
    Let(calculate_compliance_score(vs), LAMBDA s :
        IF s >= 90 THEN "fully_compliant"
        ELSE IF s >= 80 THEN "minor_issues"
        ELSE IF s >= 70 THEN "moderate_issues"
        ELSE IF s >= 60 THEN "major_issues"
        ELSE "non_compliant")

(***************************************************************************)
(* StaticAnalysisIntegrator: findings, category tables, parsers.  What a   *)
(* tool writes to stdout is modelled by the diagnostics it carries:        *)
(* [form, entries], where form "entries" is well-formed output listing     *)
(* the native entries, "garbage" is text that none of the tool's patterns  *)
(* matches and that is no JSON, and "json_scalar" is a JSON number,         *)
(* "json_numbers" a JSON list of numbers, "json_strings" a JSON list of    *)
(* strings and "json_object" a JSON object, the strings and keys without   *)
(* the text `diagnostics` in them.                                         *)
(***************************************************************************)

\* the keys of self.tools, in insertion order
ToolOrder == <<"cppcheck", "clang_tidy", "splint", "flawfinder">>

ToolSet == {ToolOrder[k] : k \in 1..Len(ToolOrder)}

\* confidence is kept in hundredths: 0.9 is 90
StaticAnalysisResult(tool_name, file_path, line_number, severity, message, rule_id, category, confidence) ==
    [tool_name |-> tool_name, file_path |-> file_path, line_number |-> line_number,
     severity |-> severity, message |-> message, rule_id |-> rule_id,
     category |-> category, confidence |-> confidence]

\* mapping.get(key, default) for a table of <<key, value>> pairs
Get(mapping, key, default) ==
    IF \E pair \in mapping : pair[1] = key
    THEN (CHOOSE pair \in mapping : pair[1] = key)[2]
    ELSE default

cppcheck_mapping ==
    { <<"unusedFunction", "style_unused_code">>,
      <<"missingInclude", "style_includes">>,
      <<"unusedVariable", "style_unused_code">>,
      <<"unreadVariable", "style_unused_code">>,
      <<"unassignedVariable", "rule_6">>,
      <<"nullPointer", "rule_5">>,
      <<"arrayIndexOutOfBounds", "style_bounds_checking">>,
      <<"memoryLeak", "rule_3">>,
      <<"resourceLeak", "rule_3">>,
      <<"useInitializationList", "rule_6">>,
      <<"variableScope", "rule_6">>,
      <<"redundantAssignment", "rule_10">>,
      <<"redundantCondition", "style_logic">>,
      <<"redundantPointerOp", "rule_5">>,
      <<"stlSize", "style_containers">>,
      <<"stlBoundaries", "style_bounds_checking">>,
      <<"stlStrFind", "style_strings">>,
      <<"stlStrVar", "style_strings">>,
      <<"stlStrConcat", "style_strings">>,
      <<"stlStrSize", "style_strings">> }

map_cppcheck_to_nasa(rule_id) == Get(cppcheck_mapping, rule_id, "style_general")

clang_tidy_mapping ==
    { <<"bugprone-assignment-in-if-condition", "rule_9">>,
      <<"bugprone-branch-clone", "style_logic">>,
      <<"bugprone-dangling-handle", "rule_5">>,
      <<"bugprone-dynamic-static-initializers", "rule_3">>,
      <<"bugprone-exception-escape", "rule_1">>,
      <<"bugprone-fold-init-type", "style_types">>,
      <<"bugprone-forward-declaration-namespace", "style_includes">>,
      <<"bugprone-forwarding-reference-overload", "style_functions">>,
      <<"bugprone-inaccurate-erase", "style_containers">>,
      <<"bugprone-infinite-loop", "rule_2">>,
      <<"bugprone-integer-division", "style_arithmetic">>,
      <<"bugprone-lambda-function-name", "style_functions">>,
      <<"bugprone-macro-parentheses", "rule_8">>,
      <<"bugprone-macro-repeated-side-effects", "rule_8">>,
      <<"bugprone-misplaced-operator-new", "rule_3">>,
      <<"bugprone-misplaced-pointer-arithmetic-in-alloc", "rule_3">>,
      <<"bugprone-misplaced-widening-cast", "style_types">>,
      <<"bugprone-move-forwarding-reference", "style_functions">>,
      <<"bugprone-multiple-statement-macro", "rule_8">>,
      <<"bugprone-no-escape", "style_security">>,
      <<"bugprone-not-null-terminated-result", "style_strings">>,
      <<"bugprone-parent-virtual-call", "style_inheritance">>,
      <<"bugprone-posix-return", "style_functions">>,
      <<"bugprone-reserved-identifier", "style_naming">>,
      <<"bugprone-sizeof-container", "style_containers">>,
      <<"bugprone-sizeof-expression", "style_types">>,
      <<"bugprone-spuriously-missing-initialization", "rule_6">>,
      <<"bugprone-string-constructor", "style_strings">>,
      <<"bugprone-string-integer-assignment", "style_types">>,
      <<"bugprone-string-literal-with-embedded-nul", "style_strings">>,
      <<"bugprone-suspicious-enum-usage", "style_enums">>,
      <<"bugprone-suspicious-missing-comma", "style_syntax">>,
      <<"bugprone-suspicious-semicolon", "style_syntax">>,
      <<"bugprone-suspicious-string-compare", "style_strings">>,
      <<"bugprone-swapped-arguments", "style_functions">>,
      <<"bugprone-terminating-continue", "rule_1">>,
      <<"bugprone-throw-keyword-missing", "style_exceptions">>,
      <<"bugprone-too-small-loop-variable", "style_types">>,
      <<"bugprone-undefined-behavior", "style_undefined">>,
      <<"bugprone-undelegated-constructor", "style_classes">>,
      <<"bugprone-unhandled-self-move", "style_moves">>,
      <<"bugprone-unused-raii", "style_resources">>,
      <<"bugprone-unused-return-value", "style_functions">>,
      <<"bugprone-use-after-move", "style_moves">>,
      <<"bugprone-virtual-near-miss", "style_inheritance">> }

map_clang_tidy_to_nasa(rule_id) == Get(clang_tidy_mapping, rule_id, "style_general")

map_splint_to_nasa(message) ==
    Let(Lower(message), LAMBDA message_lower :
        IF Contains(message_lower, "uninitialized") THEN "rule_6"
        ELSE IF Contains(message_lower, "null pointer") THEN "rule_5"
        ELSE IF Contains(message_lower, "memory leak") THEN "rule_3"
        ELSE IF Contains(message_lower, "array bounds") THEN "style_bounds_checking"
        ELSE IF Contains(message_lower, "unused") THEN "style_unused_code"
        ELSE IF Contains(message_lower, "type") THEN "style_types"
        ELSE "style_general")

map_flawfinder_to_nasa(description) ==
    Let(Lower(description), LAMBDA desc_lower :
        IF Contains(desc_lower, "buffer overflow") THEN "style_bounds_checking"
        ELSE IF Contains(desc_lower, "format string") THEN "style_security"
        ELSE IF Contains(desc_lower, "race condition") THEN "style_concurrency"
        ELSE IF Contains(desc_lower, "command injection") THEN "style_security"
        ELSE "style_security")

\* the result of a call: the exception it raised ("" for none) and its value
Returned(value) == [raised |-> "", value |-> value]

Raised(exception) == [raised |-> exception, value |-> <<>>]

\* one result per <error ...> element, with the line of its <location>
parse_cppcheck_xml(xml_output, file_path) ==
    Returned(ConcatFor(Len(xml_output.entries), LAMBDA k :
        Let(xml_output.entries[k], LAMBDA e :
            <<StaticAnalysisResult("cppcheck", file_path, e.line, e.severity,
                                   e.message, e.id, map_cppcheck_to_nasa(e.id), 90)>>)))

\* the results built from the diagnostics of a clang-tidy output, in order
clang_tidy_results(diagnostics, file_path) ==
    ConcatFor(Len(diagnostics), LAMBDA k :
        Let(diagnostics[k], LAMBDA diag :
            <<StaticAnalysisResult("clang-tidy", file_path, diag.line, diag.severity,
                                   diag.message, diag.id,
                                   map_clang_tidy_to_nasa(diag.id), 85)>>))

\* the clang-tidy parser with `except Exception` for `except
\* json.JSONDecodeError`: it returns what it had built when the loop failed
parse_clang_tidy_json_catching_all(json_output, file_path) ==
    IF json_output.form \in {"entries", "json_bad_tail"}
    THEN [raised |-> "", value |-> clang_tidy_results(json_output.entries, file_path)]
    ELSE [raised |-> "", value |-> <<>>]

\* json.loads: JSONDecodeError is caught here.  A number cannot be iterated
\* (`for diagnostic in data`) and a number in a list cannot be searched
\* (`'diagnostics' in diagnostic`): both raise TypeError, which is not caught.
\* Iterating a list of strings or an object gives strings, in which
\* 'diagnostics' is looked for as a substring and not found.  A number after
\* the diagnostics of a list has no .get: AttributeError, not caught, after
\* the results of the diagnostics before it were appended to the local list
parse_clang_tidy_json(json_output, file_path) ==
    IF json_output.form = "garbage" THEN Returned(<<>>)
    ELSE IF json_output.form \in {"json_scalar", "json_numbers"} THEN Raised("TypeError")
    ELSE IF json_output.form \in {"json_strings", "json_object"} THEN Returned(<<>>)
    ELSE IF json_output.form = "json_bad_tail" THEN Raised("AttributeError")
    ELSE Returned(clang_tidy_results(json_output.entries, file_path))

\* one result per `file:line: message` line
parse_splint_output(text_output, file_path) ==
    Returned(ConcatFor(Len(text_output.entries), LAMBDA k :
        Let(text_output.entries[k], LAMBDA e :
            <<StaticAnalysisResult("splint", file_path, e.line, "warning",
                                   e.message, "splint",
                                   map_splint_to_nasa(e.message), 80)>>)))

\* one result per `Risk level N: description`
parse_flawfinder_html(html_output, file_path) ==
    Returned(ConcatFor(Len(html_output.entries), LAMBDA k :
        Let(html_output.entries[k], LAMBDA e :
            <<StaticAnalysisResult("flawfinder", file_path, 0,
                                   "risk_level_" \o ToString(e.risk),
                                   e.message, "flawfinder",
                                   map_flawfinder_to_nasa(e.message), 75)>>)))

\* the parser run_<tool> calls
parse(tool, stdout, file_path) ==
    CASE tool = "cppcheck" -> parse_cppcheck_xml(stdout, file_path)
      [] tool = "clang_tidy" -> parse_clang_tidy_json(stdout, file_path)
      [] tool = "splint" -> parse_splint_output(stdout, file_path)
      [] tool = "flawfinder" -> parse_flawfinder_html(stdout, file_path)

(***************************************************************************)
(* StaticAnalysisIntegrator: probes and adapters.  A subprocess.run ends   *)
(* in one of the outcomes below; "os_error" is an OSError other than       *)
(* FileNotFoundError, such as the PermissionError for a file on PATH that  *)
(* may not be executed.                                                    *)
(***************************************************************************)

ProbeOutcomes == {"exit_0", "exit_nonzero", "timeout", "not_found", "os_error"}

\* _check_<tool>_available: only TimeoutExpired and FileNotFoundError are
\* caught
check_available(outcome) ==
    CASE outcome = "exit_0" -> Returned(TRUE)
      [] outcome = "exit_nonzero" -> Returned(FALSE)
      [] outcome \in {"timeout", "not_found"} -> Returned(FALSE)
      [] OTHER -> Raised("PermissionError")

\* every adapter parsing on exit code 0 only
ParsedCodes_zero_only(tool) == {0}

\* the exit codes whose stdout run_<tool> parses
ParsedCodes(tool) == IF tool = "flawfinder" THEN {0} ELSE {0, 1}

\* what a run of an adapter does: the exception that leaves it, the list it
\* returns, whether it launched the subprocess and whether it called the parser
Ran(exception, found, did_launch, did_parse) ==
    [raised |-> exception, value |-> found, launched |-> did_launch, parsed |-> did_parse]

\* run_<tool> without its `except Exception` clause
run_tool_uncaught(tool, available, outcome, file_path) ==
    IF ~available THEN Ran("", <<>>, FALSE, FALSE)
    ELSE IF outcome.kind = "timeout" THEN Ran("", <<>>, TRUE, FALSE)
    ELSE IF outcome.kind = "os_error" THEN Ran("PermissionError", <<>>, TRUE, FALSE)
    ELSE IF outcome.returncode \notin ParsedCodes(tool) THEN Ran("", <<>>, TRUE, FALSE)
    ELSE Let(parse(tool, outcome.stdout, file_path), LAMBDA parsing :
            Ran(parsing.raised, parsing.value, TRUE, TRUE))

\* run_cppcheck, run_clang_tidy, run_splint, run_flawfinder: results stays []
\* unless the parser returns
run_tool(tool, available, outcome, file_path) ==
    IF ~available THEN Ran("", <<>>, FALSE, FALSE)
    ELSE IF outcome.kind = "timeout" THEN Ran("", <<>>, TRUE, FALSE)
    ELSE IF outcome.kind = "os_error" THEN Ran("", <<>>, TRUE, FALSE)
    ELSE IF outcome.returncode \notin ParsedCodes(tool) THEN Ran("", <<>>, TRUE, FALSE)
    ELSE Let(parse(tool, outcome.stdout, file_path), LAMBDA parsing :
            IF parsing.raised = "" THEN Ran("", parsing.value, TRUE, TRUE)
            ELSE Ran("", <<>>, TRUE, TRUE))

\* the adapters run_all_tools calls, in order, up to the first that raises:
\* all of the available ones when none does
AdapterRuns(available, outcomes, file_path) ==
    Let(ConcatFor(Len(ToolOrder), LAMBDA k :
            IF available[ToolOrder[k]]
            THEN <<run_tool(ToolOrder[k], TRUE, outcomes[ToolOrder[k]], file_path)>>
            ELSE <<Ran("", <<>>, FALSE, FALSE)>>),
        LAMBDA runs :
            Let(FirstIndex(1, Len(ToolOrder), LAMBDA k : runs[k].raised # ""),
                LAMBDA stop :
                    [runs |-> runs,
                     last |-> IF stop = 0 THEN Len(ToolOrder) ELSE stop,
                     raised |-> IF stop = 0 THEN "" ELSE runs[stop].raised]))

\* run_all_tools: the dict it returns, one entry per available tool in
\* insertion order, with what it launched and parsed on the way
\* run_all_tools giving every tool a key, an unavailable one an empty list
run_all_tools_every_key(available, outcomes, file_path) ==
    Let(AdapterRuns(available, outcomes, file_path), LAMBDA a :
        [raised |-> a.raised,
         value |-> ConcatFor(Len(ToolOrder), LAMBDA k :
                        <<[tool |-> ToolOrder[k], findings |-> a.runs[k].value]>>),
         launched |-> {ToolOrder[k] : k \in {j \in 1..a.last : a.runs[j].launched}},
         parsed |-> {ToolOrder[k] : k \in {j \in 1..a.last : a.runs[j].parsed}}])

run_all_tools(available, outcomes, file_path) ==
    Let(AdapterRuns(available, outcomes, file_path), LAMBDA a :
        [raised |-> a.raised,
         value |-> IF a.raised # "" THEN <<>>
                   ELSE ConcatFor(Len(ToolOrder), LAMBDA k :
                            IF available[ToolOrder[k]]
                            THEN <<[tool |-> ToolOrder[k], findings |-> a.runs[k].value]>>
                            ELSE <<>>),
         launched |-> {ToolOrder[k] : k \in {j \in 1..a.last : a.runs[j].launched}},
         parsed |-> {ToolOrder[k] : k \in {j \in 1..a.last : a.runs[j].parsed}}])

\* StaticAnalysisIntegrator(config): __init__ probes the four tools in order
\* and builds self.tools; a probe that raises ends it, and no object is made
StaticAnalysisIntegrator(outcomes) ==
    Let(FirstIndex(1, Len(ToolOrder),
                   LAMBDA k : check_available(outcomes[ToolOrder[k]]).raised # ""),
        LAMBDA stop :
            IF stop = 0
            THEN [raised |-> "",
                  tools |-> [t \in ToolSet |-> check_available(outcomes[t]).value],
                  probed |-> ToolOrder]
            ELSE [raised |-> check_available(outcomes[ToolOrder[stop]]).raised,
                  tools |-> <<>>,
                  probed |-> SubSeq(ToolOrder, 1, stop)])

(***************************************************************************)
(* StaticAnalysisIntegrator: the report and the export                     *)
(***************************************************************************)

\* Term(1) + ... + Term(n)
SumFor(n, Term(_)) ==
    LET RECURSIVE Range(_, _)
        Range(lo, hi) ==
            IF lo > hi THEN 0
            ELSE IF lo = hi THEN Term(lo)
            ELSE Range(lo, (lo + hi) \div 2) + Range((lo + hi) \div 2 + 1, hi)
    IN  Range(1, n)

\* c * n for a string c
Repeat(c, n) == JoinFor(n, LAMBDA i : c)

\* "\n".join(lines)
JoinLines(lines) ==
    JoinFor(Len(lines), LAMBDA i : IF i = 1 THEN lines[1] ELSE "\n" \o lines[i])

\* one character of s.upper()
UpperCh(c) ==
    IF c \in LowerSet
    THEN UpperChars[CHOOSE k \in 1..26 : LowerChars[k] = c]
    ELSE c

\* s.upper()
Upper(s) == Let(s, LAMBDA v : JoinFor(Len(v), LAMBDA i : UpperCh(Ch(v, i))))

\* the characters of the category names in code point order
CodePointOrder ==
    <<"0","1","2","3","4","5","6","7","8","9",
      "A","B","C","D","E","F","G","H","I","J","K","L","M",
      "N","O","P","Q","R","S","T","U","V","W","X","Y","Z", "_",
      "a","b","c","d","e","f","g","h","i","j","k","l","m",
      "n","o","p","q","r","s","t","u","v","w","x","y","z">>

CodePointRank(c) == CHOOSE k \in 1..Len(CodePointOrder) : CodePointOrder[k] = c

\* a < b for Python strings
StrLess(a, b) ==
    Let(FirstIndex(1, IF Len(a) < Len(b) THEN Len(a) ELSE Len(b),
                   LAMBDA i : Ch(a, i) # Ch(b, i)),
        LAMBDA d : IF d = 0 THEN Len(a) < Len(b)
                   ELSE CodePointRank(Ch(a, d)) < CodePointRank(Ch(b, d)))

\* sorted(keys) for a set of strings
RECURSIVE Sorted(_)
Sorted(keys) ==
    IF keys = {} THEN <<>>
    ELSE Let(CHOOSE x \in keys : \A y \in keys : x = y \/ StrLess(x, y),
             LAMBDA least : <<least>> \o Sorted(keys \ {least}))

\* f"{confidence:.2f}" for a confidence in hundredths below 1
FormatConfidence(confidence) ==
    "0." \o (IF confidence < 10 THEN "0" ELSE "") \o ToString(confidence)

\* sum(len(tool_results) for tool_results in results.values())
TotalViolations(by_tool) == SumFor(Len(by_tool), LAMBDA k : Len(by_tool[k].findings))

\* category_counts that counts a line once per category, whatever the number
\* of tools that flag it
CategoryCount_once_per_line(by_tool, category) ==
    Cardinality(UNION {{by_tool[k].findings[j].line_number :
                            j \in {i \in 1..Len(by_tool[k].findings) :
                                      by_tool[k].findings[i].category = category}} :
                       k \in 1..Len(by_tool)})

\* category_counts: each category among the findings with its count
CategoryCount(by_tool, category) ==
    SumFor(Len(by_tool), LAMBDA k :
        Cardinality({j \in 1..Len(by_tool[k].findings) :
                        by_tool[k].findings[j].category = category}))

Categories(by_tool) ==
    UNION {{by_tool[k].findings[j].category : j \in 1..Len(by_tool[k].findings)} :
           k \in 1..Len(by_tool)}

\* the lines of the detailed section for one tool
ToolDetail(entry) ==
    IF entry.findings = <<>> THEN <<>>
    ELSE <<"\n" \o Upper(entry.tool) \o " VIOLATIONS:">>
         \o ConcatFor(Len(entry.findings), LAMBDA i :
                Let(entry.findings[i], LAMBDA result :
                    << "  " \o ToString(i) \o ". Line " \o ToString(result.line_number)
                           \o ": " \o result.message,
                       "     Category: " \o result.category,
                       "     Severity: " \o result.severity,
                       "     Confidence: " \o FormatConfidence(result.confidence),
                       "" >>))

\* the list `report` of generate_compliance_report before it is joined
ReportLines(by_tool) ==
    Let(TotalViolations(by_tool), LAMBDA total_violations :
        << Repeat("=", 60), "STATIC ANALYSIS COMPLIANCE REPORT", Repeat("=", 60), "",
           "Total Violations Found: " \o ToString(total_violations), "",
           "VIOLATIONS BY TOOL:", Repeat("-", 25) >>
        \o ConcatFor(Len(by_tool), LAMBDA k :
               <<by_tool[k].tool \o ": " \o ToString(Len(by_tool[k].findings))
                     \o " violations">>)
        \o << "", "VIOLATIONS BY CATEGORY:", Repeat("-", 25) >>
        \o Let(Sorted(Categories(by_tool)), LAMBDA categories :
               ConcatFor(Len(categories), LAMBDA k :
                   <<categories[k] \o ": "
                         \o ToString(CategoryCount(by_tool, categories[k]))
                         \o " violations">>))
        \o << "" >>
        \o (IF total_violations > 0
            THEN << "DETAILED VIOLATIONS:", Repeat("-", 25) >>
                 \o ConcatFor(Len(by_tool), LAMBDA k : ToolDetail(by_tool[k]))
            ELSE << "No violations detected!", "" >>))

generate_compliance_report(by_tool) == JoinLines(ReportLines(by_tool))

\* export_results_json: the export_data it builds, which json.dumps then
\* serialises (strings, integers, lists and dicts only); file_path indexes the
\* first list of the dict whenever any list has a finding
export_results_json(by_tool, cwd) ==
    IF /\ \E k \in 1..Len(by_tool) : by_tool[k].findings # <<>>
       /\ by_tool[1].findings = <<>>
    THEN Raised("IndexError")
    ELSE Returned(
        [file_path |-> IF \E k \in 1..Len(by_tool) : by_tool[k].findings # <<>>
                       THEN by_tool[1].findings[1].file_path ELSE "",
         analysis_timestamp |-> cwd,
         tools_used |-> ConcatFor(Len(by_tool), LAMBDA k : <<by_tool[k].tool>>),
         total_violations |-> TotalViolations(by_tool),
         results_by_tool |->
            ConcatFor(Len(by_tool), LAMBDA k :
                <<[tool |-> by_tool[k].tool,
                   entries |-> ConcatFor(Len(by_tool[k].findings), LAMBDA j :
                       Let(by_tool[k].findings[j], LAMBDA result :
                           <<[line_number |-> result.line_number,
                              severity |-> result.severity,
                              message |-> result.message,
                              rule_id |-> result.rule_id,
                              category |-> result.category,
                              confidence |-> result.confidence]>>))]>>)])

(***************************************************************************)
(* Inputs: the sources of test_compliance_system.py, and every text of up  *)
(* to MaxLines lines drawn from SourceLines.                               *)
(***************************************************************************)

\* test_compliance_system.py lines 22-39
compliant_code ==
       "\n"
    \o "#include <stdint.h>\n"
    \o "\n"
    \o "int main(void) {\n"
    \o "    uint16_t counter;\n"
    \o "    uint16_t result;\n"
    \o "    \n"
    \o "    counter = 0;\n"
    \o "    result = 0;\n"
    \o "    \n"
    \o "    while (counter < 10) {\n"
    \o "        result += counter;\n"
    \o "        counter++;\n"
    \o "    }\n"
    \o "    \n"
    \o "    return (int)result;\n"
    \o "}\n"

\* test_compliance_system.py lines 62-110
non_compliant_code ==
       "\n"
    \o "#include <stdio.h>\n"
    \o "#include <stdlib.h>\n"
    \o "\n"
    \o "int process_data(int x, int y, int z, int w, int v) {\n"
    \o "    int temp;\n"
    \o "    int result;\n"
    \o "    \n"
    \o "    if (x < 0) return -1;\n"
    \o "    if (x > 100) return -2;\n"
    \o "    \n"
    \o "    temp = malloc(100);\n"
    \o "    if (temp == NULL) return -3;\n"
    \o "    \n"
    \o "    while (y > 0) {\n"
    \o "        result = x + y + z + w + v;\n"
    \o "        y--;\n"
    \o "    }\n"
    \o "    \n"
    \o "    free(temp);\n"
    \o "    return result;\n"
    \o "}\n"
    \o "\n"
    \o "int factorial(int n) {\n"
    \o "    if (n <= 1) return 1;\n"
    \o "    return n * factorial(n - 1);\n"
    \o "}\n"
    \o "\n"
    \o "void cleanup() {\n"
    \o "    goto cleanup_label;\n"
    \o "    \n"
    \o "cleanup_label:\n"
    \o "    printf(\"Cleanup complete\\n\");\n"
    \o "}\n"
    \o "\n"
    \o "int main() {\n"
    \o "    int a, b, c;\n"
    \o "    \n"
    \o "    a = b = c = 0;\n"
    \o "    \n"
    \o "    while ((a = getchar()) != EOF) {\n"
    \o "        if (process_data(a, b, c, 1, 2) > 0) {\n"
    \o "            break;\n"
    \o "        }\n"
    \o "    }\n"
    \o "    \n"
    \o "    return 0;\n"
    \o "}\n"

\* test_compliance_system.py lines 149-153
comment_code ==
       "\n"
    \o "// This is a comment\n"
    \o "/* Another comment */\n"
    \o "// More comments\n"

\* test_compliance_system.py lines 165-173
goto_code ==
       "\n"
    \o "int main() {\n"
    \o "    int x = 5;\n"
    \o "    if (x < 0) goto error;\n"
    \o "    return x;\n"
    \o "error:\n"
    \o "    return -1;\n"
    \o "}\n"

\* test_compliance_system.py lines 185-191
malloc_code ==
       "\n"
    \o "int main() {\n"
    \o "    int* ptr = malloc(100);\n"
    \o "    free(ptr);\n"
    \o "    return 0;\n"
    \o "}\n"
\* checker.load_code("")
empty_code == ""

\* checker.load_code("int main() { return 0; }")
single_line_code == "int main() { return 0; }"

TestTexts == {compliant_code, non_compliant_code, comment_code, goto_code,
              malloc_code, empty_code, single_line_code}

MaxLines == 2

SourceLines == {"goto fail;", "while (1) {"}

\* the texts of n lines over SourceLines
RECURSIVE TextsOfLines(_)
TextsOfLines(n) ==
    IF n = 1 THEN SourceLines
    ELSE {t \o "\n" \o l : t \in TextsOfLines(n - 1), l \in SourceLines}

ShortTexts == UNION {TextsOfLines(n) : n \in 1..MaxLines}

\* one-line sources for the goto and loop checks: a goto statement, the same
\* in an indented // comment, a loop on the constant 1, the end of a
\* do-while loop on it, and a loop with a bound token and a 1
ExampleTexts ==
    { "goto cleanup;", "    // goto cleanup;", "while (1) { x++; }",
      "} while (1);", "while (count < 1) {" }

\* two functions of two return statements each
two_function_code ==
       "int sign(int a) {\n"
    \o "    if (a < 0) return -1;\n"
    \o "    return 1;\n"
    \o "}\n"
    \o "int flag(int b) {\n"
    \o "    if (b) return 1;\n"
    \o "    return 0;\n"
    \o "}"

\* sources for the function scans: a function whose inner block closes on a
\* line of its own before the last return, a function with a return in a //
\* comment, a function of two loops written `while(`, and a function with
\* a comment three lines, or one line, above its signature, and a function
\* with a return on its signature line
ScanTexts ==
    { "int pick(int val) {\n    if (val) {\n        return 1;\n    }\n    return 0;\n}",
      "int same(int val) {\n    // return early\n    return val;\n}",
      "void spin(int val) {\n    while(val) {\n        val--;\n    }\n    while(val) {\n        val--;\n    }\n}",
      "// header\n\n\nint run(int val) {\n    return val;\n}",
      "// header\nint run(int val) {\n    return val;\n}",
      "int once(int val) { if (val) return 1;\n    return 0;\n}" }

\* a function of one more body line than FunctionLengthLimit and two return
\* lines, with its closing brace on a line of its own or at the end of the
\* last return line
long_function_code(closing) ==
       "int grow(int val) {\n"
    \o Repeat("    val++;\n", FunctionLengthLimit + 1)
    \o "    if (val < 0) return 0;\n"
    \o "    return val;" \o closing

LongTexts == {long_function_code("\n}"), long_function_code(" }")}

Inputs ==
    TestTexts \cup ShortTexts \cup ExampleTexts \cup {two_function_code} \cup ScanTexts
        \cup LongTexts

RerunInputs == ShortTexts \cup {goto_code}

(***************************************************************************)
(* Inputs of the integrator: what the analysis subprocesses do             *)
(***************************************************************************)

MaxFindings == 1

\* diagnostics a tool can report about the file: the first falls under an
\* entry of the tool's category table, the second under none; cppcheck and
\* splint report the same leak on the same line
NativeEntries(tool) ==
    CASE tool = "cppcheck" ->
            << [id |-> "memoryLeak", severity |-> "error",
                message |-> "Memory leak: buffer", line |-> 7, risk |-> 0],
               [id |-> "zerodiv", severity |-> "error",
                message |-> "Division by zero", line |-> 3, risk |-> 0] >>
      [] tool = "clang_tidy" ->
            << [id |-> "bugprone-infinite-loop", severity |-> "warning",
                message |-> "loop condition is never updated", line |-> 7, risk |-> 0],
               [id |-> "readability-magic-numbers", severity |-> "warning",
                message |-> "10 is a magic number", line |-> 3, risk |-> 0] >>
      [] tool = "splint" ->
            << [id |-> "splint", severity |-> "warning",
                message |-> "Memory leak: buffer", line |-> 7, risk |-> 0],
               [id |-> "splint", severity |-> "warning",
                message |-> "Parse Error", line |-> 3, risk |-> 0] >>
      [] tool = "flawfinder" ->
            << [id |-> "flawfinder", severity |-> "",
                message |-> "Buffer overflow in strcpy", line |-> 0, risk |-> 4],
               [id |-> "flawfinder", severity |-> "",
                message |-> "Check the return value", line |-> 0, risk |-> 1] >>

\* the lists of up to MaxFindings diagnostics
EntryLists(tool) ==
    UNION {[1..n -> {NativeEntries(tool)[k] : k \in 1..Len(NativeEntries(tool))}] :
           n \in 0..MaxFindings}

Outputs(tool) ==
    {[form |-> "entries", entries |-> es] : es \in EntryLists(tool)}
    \cup {[form |-> "garbage", entries |-> <<>>]}
    \cup (IF tool = "clang_tidy"
          THEN {[form |-> f, entries |-> <<>>] :
                    f \in {"json_scalar", "json_numbers", "json_strings", "json_object"}}
          ELSE {})

ReturnCodes == {0, 1, 2}

NoOutput == [form |-> "garbage", entries |-> <<>>]

\* how the analysis subprocess of a tool can end
RunOutcomes(tool) ==
    {[kind |-> k, returncode |-> 0, stdout |-> NoOutput] : k \in {"timeout", "os_error"}}
    \cup {[kind |-> "exit", returncode |-> rc, stdout |-> out] :
            rc \in ReturnCodes, out \in Outputs(tool)}

\* the outcome of a subprocess that is not run
NotRun == [kind |-> "not_run", returncode |-> 0, stdout |-> NoOutput]

\* the four ways an adapter's run can go when two runs are put side by side:
\* timeout, crash, malformed output, one finding
PairRunOutcomes(tool) ==
    {o \in RunOutcomes(tool) :
        \/ o.kind # "exit"
        \/ /\ o.returncode = 0
           /\ o.stdout \in {NoOutput, [form |-> "entries", entries |-> <<NativeEntries(tool)[1]>>]}}

PairProbeOutcomes == {"exit_0", "timeout", "not_found"}

FilePaths == {"flight.c"}

WorkingDirectory == "/work"

\* the outcomes of the four subprocesses as a map
OutcomeMap(o1, o2, o3, o4) ==
    [t \in ToolSet |-> CASE t = ToolOrder[1] -> o1
                         [] t = ToolOrder[2] -> o2
                         [] t = ToolOrder[3] -> o3
                         [] t = ToolOrder[4] -> o4]

(***************************************************************************)
(* StaticAnalysisIntegrator: the object, its methods and main's use of it  *)
(***************************************************************************)

\* __init__, once per behaviour unless it raised
NewIntegrator ==
    /\ ipc = "none"
    /\ \E outcomes \in [ToolSet -> ProbeOutcomes] :
        \E made \in {StaticAnalysisIntegrator(outcomes)} :
            /\ tools' = made.tools
            /\ probed' = made.probed
            /\ raised' = made.raised
            /\ ipc' = IF made.raised = "" THEN "constructed" ELSE "none"
    /\ UNCHANGED <<results, launched, parsed, report, export, ended, checkerVars, pairVars, mainVars>>

\* the outcomes a tool's analysis subprocess is drawn from
OutcomesFor(available, tool) == IF available[tool] THEN RunOutcomes(tool) ELSE {NotRun}

\* longer outputs for an adapter run by itself: both diagnostics of the tool
\* in order and, of clang-tidy, diagnostics followed by a number
LongOutputs(tool) ==
    {[form |-> "entries", entries |-> NativeEntries(tool)]}
    \cup (IF tool = "clang_tidy"
          THEN {[form |-> "json_bad_tail", entries |-> es] :
                    es \in (EntryLists(tool) \ {<<>>}) \cup {NativeEntries(tool)}}
          ELSE {})

\* the outcomes the subprocess of an adapter run by itself is drawn from
AdapterOutcomes(available, tool) ==
    IF available[tool]
    THEN RunOutcomes(tool)
         \cup {[kind |-> "exit", returncode |-> rc, stdout |-> out] :
                  rc \in ReturnCodes, out \in LongOutputs(tool)}
    ELSE {NotRun}

RunAllTools ==
    /\ ipc = "constructed"
    /\ \E file_path \in FilePaths :
        \E o1 \in OutcomesFor(tools, ToolOrder[1]), o2 \in OutcomesFor(tools, ToolOrder[2]),
           o3 \in OutcomesFor(tools, ToolOrder[3]), o4 \in OutcomesFor(tools, ToolOrder[4]) :
            \E ran \in {run_all_tools(tools, OutcomeMap(o1, o2, o3, o4), file_path)} :
                /\ results' = ran.value
                /\ launched' = ran.launched
                /\ parsed' = ran.parsed
                /\ raised' = ran.raised
    /\ ipc' = "ran"
    /\ UNCHANGED <<tools, probed, report, export, ended, checkerVars, pairVars, mainVars>>

GenerateReport ==
    /\ ipc = "ran" /\ raised = ""
    /\ report' = <<generate_compliance_report(results)>>
    /\ UNCHANGED <<tools, probed, results, launched, parsed, export, raised, ipc, ended, checkerVars, pairVars, mainVars>>

ExportJson ==
    /\ ipc = "ran" /\ raised = ""
    /\ \E exported \in {export_results_json(results, WorkingDirectory)} :
        /\ raised' = exported.raised
        /\ export' = IF exported.raised = "" THEN <<exported.value>> ELSE <<>>
    /\ UNCHANGED <<tools, probed, results, launched, parsed, report, ipc, ended, checkerVars, pairVars, mainVars>>

\* one adapter called by itself, run_cppcheck(file_path) and the like: the
\* caller keeps the list under the tool's key
RunAdapter ==
    /\ ipc = "constructed"
    /\ \E t \in ToolSet, file_path \in FilePaths :
        \E outcome \in AdapterOutcomes(tools, t) :
            \E ran \in {run_tool(t, tools[t], outcome, file_path)} :
                /\ results' = <<[tool |-> t, findings |-> ran.value]>>
                /\ launched' = IF ran.launched THEN {t} ELSE {}
                /\ parsed' = IF ran.parsed THEN {t} ELSE {}
                /\ raised' = ran.raised
                /\ ended' = <<[tool |-> t, outcome |-> outcome]>>
    /\ ipc' = "ran_one"
    /\ UNCHANGED <<tools, probed, report, export, checkerVars, pairVars, mainVars>>

\* a parser called by itself on a raw output, _parse_cppcheck_xml(stdout,
\* file_path) and the like
ParseOutput ==
    /\ ipc = "constructed"
    /\ \E t \in ToolSet, file_path \in FilePaths :
        \E stdout \in Outputs(t) :
            \E parsing \in {parse(t, stdout, file_path)} :
                /\ results' = IF parsing.raised = ""
                              THEN <<[tool |-> t, findings |-> parsing.value]>>
                              ELSE <<>>
                /\ raised' = parsing.raised
                /\ parsed' = {t}
                /\ ended' = <<[tool |-> t,
                               outcome |-> [kind |-> "parse", returncode |-> 0, stdout |-> stdout]]>>
    /\ ipc' = "parsed"
    /\ UNCHANGED <<tools, probed, launched, report, export, checkerVars, pairVars, mainVars>>

\* two integrators made side by side: the probes of the focal tool end alike
NewIntegratorPair ==
    /\ ipc = "none" /\ other = <<>>
    /\ \E x \in ToolSet :
        \E probes1 \in [ToolSet -> PairProbeOutcomes], probes2 \in [ToolSet -> PairProbeOutcomes] :
            /\ probes1[x] = probes2[x]
            /\ \E made1 \in {StaticAnalysisIntegrator(probes1)},
                  made2 \in {StaticAnalysisIntegrator(probes2)} :
                /\ tools' = made1.tools
                /\ probed' = made1.probed
                /\ raised' = made1.raised
                /\ other' = <<[tools |-> made2.tools, results |-> <<>>, raised |-> made2.raised]>>
            /\ focal' = x
    /\ ipc' = "constructed"
    /\ UNCHANGED <<results, launched, parsed, report, export, ended, checkerVars, mainVars>>

\* the outcomes of a tool's analysis subprocess in a run beside another
PairOutcomesFor(available, tool) ==
    IF available[tool] THEN PairRunOutcomes(tool) ELSE {NotRun}

\* the outcomes of the second run: the focal tool's subprocess ends as in the
\* first
SecondOutcomesFor(tool, first) ==
    IF tool = focal THEN {first} ELSE PairOutcomesFor(other[1].tools, tool)

\* run_all_tools on both, on the same file
RunAllToolsPair ==
    /\ ipc = "constructed" /\ other # <<>>
    /\ \E file_path \in FilePaths :
        \E o1 \in PairOutcomesFor(tools, ToolOrder[1]), o2 \in PairOutcomesFor(tools, ToolOrder[2]),
           o3 \in PairOutcomesFor(tools, ToolOrder[3]), o4 \in PairOutcomesFor(tools, ToolOrder[4]) :
            \E ran1 \in {run_all_tools(tools, OutcomeMap(o1, o2, o3, o4), file_path)} :
                /\ results' = ran1.value
                /\ launched' = ran1.launched
                /\ parsed' = ran1.parsed
                /\ raised' = ran1.raised
                /\ \E p1 \in SecondOutcomesFor(ToolOrder[1], o1), p2 \in SecondOutcomesFor(ToolOrder[2], o2),
                      p3 \in SecondOutcomesFor(ToolOrder[3], o3), p4 \in SecondOutcomesFor(ToolOrder[4], o4) :
                    \E ran2 \in {run_all_tools(other[1].tools, OutcomeMap(p1, p2, p3, p4), file_path)} :
                        other' = <<[tools |-> other[1].tools, results |-> ran2.value,
                                    raised |-> ran2.raised]>>
    /\ ipc' = "ran"
    /\ UNCHANGED <<tools, probed, report, export, ended, focal, checkerVars, mainVars>>

(***************************************************************************)
(* NASAComplianceChecker: the object and its methods                       *)
(***************************************************************************)

\* load_code emptying the list it finds, `self.violations.clear()`
load_code_clearing(vs, code) ==
    [code_lines |-> Split(code), violations |-> <<>>, same_list |-> TRUE]

\* load_code: the new (code_lines, violations); self.violations is bound to
\* a new list, the list it was bound to is left as it is
load_code(vs, code) ==
    [code_lines |-> Split(code), violations |-> <<>>, same_list |-> FALSE]

\* the kept analysis after self.violations was assigned: the kept list
\* follows self.violations only while both are one object
Held(kept, same_list, now) ==
    IF kept = <<>> THEN kept
    ELSE <<[kept[1] EXCEPT !.list = IF kept[1].same /\ same_list THEN now ELSE @,
                           !.same = kept[1].same /\ same_list]>>

\* check_all_rules that appends to the list it finds
check_all_rules_appending(vs, lines) == RunAllChecks(vs, lines)

\* check_all_rules returning the violations most severe first
check_all_rules_by_severity(vs, lines) ==
    Let(RunAllChecks(<<>>, lines), LAMBDA found :
        ConcatFor(4, LAMBDA k :
            SelectSeq(found, LAMBDA v :
                v.severity = <<CRITICAL, MAJOR, MODERATE, MINOR>>[k])))

\* check_all_rules: the list it leaves in self.violations and returns
check_all_rules(vs, lines) == RunAllChecks(<<>>, lines)

\* __init__
NewChecker ==
    /\ code_lines' = <<>>
    /\ violations' = <<>>
    /\ score' = <<>>
    /\ level' = <<>>
    /\ pc' = "new"
    /\ printout' = <<>>
    /\ ref' = Held(ref, FALSE, <<>>)
    /\ UNCHANGED <<integratorVars, pairVars, mainVars>>

LoadCodeFrom(texts) ==
    \E code \in texts :
        \E loaded \in {load_code(violations, code)} :
            /\ code_lines' = loaded.code_lines
            /\ violations' = loaded.violations
            /\ score' = <<>>
            /\ level' = <<>>
            /\ pc' = "loaded"
            /\ printout' = <<>>
            /\ ref' = Held(ref, loaded.same_list, loaded.violations)
            /\ UNCHANGED <<integratorVars, pairVars, mainVars>>

\* load_code with any of the inputs
LoadCode == LoadCodeFrom(Inputs)

\* load_code with one of the inputs that are analysed again and again
LoadCodeAgain == LoadCodeFrom(RerunInputs)

CheckAllRules ==
    /\ violations' = check_all_rules(violations, code_lines)
    /\ score' = <<>>
    /\ level' = <<>>
    /\ pc' = "checked"
    /\ printout' = <<>>
    /\ ref' = Held(ref, FALSE, violations')
    /\ UNCHANGED <<code_lines, integratorVars, pairVars, mainVars>>

CalculateScore ==
    /\ score' = <<calculate_compliance_score(violations)>>
    /\ UNCHANGED <<code_lines, violations, level, pc, ref, printout, integratorVars, pairVars, mainVars>>

GetLevel ==
    /\ level' = <<get_compliance_level(violations)>>
    /\ UNCHANGED <<code_lines, violations, score, pc, ref, printout, integratorVars, pairVars, mainVars>>

\* the caller keeps one analysis, with its score and level, to compare later
\* analyses with
KeepAnalysis ==
    /\ pc = "checked" /\ score # <<>> /\ level # <<>> /\ ref = <<>>
    /\ ref' = <<[code_lines |-> code_lines, violations |-> violations,
                 score |-> score[1], level |-> level[1],
                 list |-> violations, same |-> TRUE]>>
    /\ UNCHANGED <<code_lines, violations, score, level, pc, printout, integratorVars, pairVars, mainVars>>

(***************************************************************************)
(* The command lines.  A run of a main() is given its arguments and finds  *)
(* the source file missing, unreadable or readable; it ends with an exit   *)
(* status, the exception that ended it ("" for none), what it printed on   *)
(* stdout and what it wrote to the output file.  json.dumps is modelled    *)
(* by the value it serialises.                                             *)
(***************************************************************************)

\* s.replace('_', ' ').title()
Title(s) ==
    Let(s, LAMBDA v :
        JoinFor(Len(v), LAMBDA i :
            IF Ch(v, i) = "_" THEN " "
            ELSE IF i = 1 \/ Ch(v, i - 1) \notin (LowerSet \cup UpperSet)
                 THEN UpperCh(Ch(v, i))
                 ELSE LowerCh(Ch(v, i))))

\* NASAComplianceChecker.generate_report
generate_report(vs) ==
    JoinLines(
        << Repeat("=", 60), "NASA C CODE COMPLIANCE REPORT", Repeat("=", 60), "",
           "Overall Compliance Score: " \o ToString(calculate_compliance_score(vs)) \o "/100",
           "Compliance Level: " \o Title(get_compliance_level(vs)),
           "Total Violations: " \o ToString(Len(vs)), "" >>
        \o (IF vs # <<>>
            THEN << "VIOLATIONS BY SEVERITY:", Repeat("-", 25) >>
                 \o ConcatFor(4, LAMBDA k :
                        Let(<<MINOR, MODERATE, MAJOR, CRITICAL>>[k], LAMBDA severity :
                            Let(Cardinality({i \in 1..Len(vs) : vs[i].severity = severity}),
                                LAMBDA count :
                                    IF count > 0
                                    THEN <<Title(severity) \o ": " \o ToString(count)>>
                                    ELSE <<>>)))
                 \o << "", "DETAILED VIOLATIONS:", Repeat("-", 25) >>
                 \o ConcatFor(Len(vs), LAMBDA i :
                        Let(vs[i], LAMBDA violation :
                            << ToString(i) \o ". " \o violation.rule_name
                                   \o " (Line " \o ToString(violation.line_number) \o ")",
                               "   Severity: " \o Title(violation.severity),
                               "   Description: " \o violation.description,
                               "   Suggestion: " \o violation.suggestion >>
                            \o (IF violation.code_snippet # ""
                                THEN <<"   Code: " \o violation.code_snippet>>
                                ELSE <<>>)
                            \o << "" >>))
                 \o << "RECOMMENDATIONS:", Repeat("-", 20) >>
                 \o (IF \E i \in 1..Len(vs) : vs[i].severity = CRITICAL
                     THEN <<"1. Address critical violations first (goto, dynamic memory, recursion)">>
                     ELSE <<>>)
                 \o (IF \E i \in 1..Len(vs) : vs[i].severity = MAJOR
                     THEN <<"2. Fix major violations (unbounded loops, excessive parameters)">>
                     ELSE <<>>)
                 \o << "3. Review and fix moderate and minor violations",
                       "4. Consider using static analysis tools for ongoing compliance" >>
            ELSE << "No rule violations detected!", "" >>))

\* generate_report, which reads the violation list
RenderReport ==
    /\ printout' = <<generate_report(violations)>>
    /\ UNCHANGED <<code_lines, violations, score, level, pc, ref, integratorVars, pairVars, mainVars>>

\* how a main() ended
Exit(status, exception, printed, written) ==
    [status |-> status, raised |-> exception, printed |-> printed, written |-> written]

\* the source file as open() finds it
FileStates == {"missing", "unreadable", "readable"}

\* main() of compliance_checker.py; an exception that leaves it ends the
\* process with a traceback and status 1
checker_main(args) ==
    IF args.code_file = "" /\ args.code_string = <<>>
    THEN Exit(1, "", <<"Error: Must provide either --code-file or --code-string">>, <<>>)
    ELSE IF args.code_file = "missing" THEN Exit(1, "FileNotFoundError", <<>>, <<>>)
    ELSE IF args.code_file = "unreadable" THEN Exit(1, "PermissionError", <<>>, <<>>)
    ELSE Let(check_all_rules(<<>>, load_code(<<>>, args.code).code_lines), LAMBDA vs :
            Let(IF args.json
                THEN [compliance_score |-> calculate_compliance_score(vs),
                      compliance_level |-> get_compliance_level(vs),
                      total_violations |-> Len(vs),
                      violations |-> vs]
                ELSE generate_report(vs),
                LAMBDA rendered :
                    IF args.output_file = ""
                    THEN Exit(0, "", <<rendered>>, <<>>)
                    ELSE Exit(0, "",
                              IF args.json THEN <<>>
                              ELSE <<"Report saved to " \o args.output_file>>,
                              <<rendered>>)))

\* main() of static_analysis_integration.py: the file is handed to the tools
\* and never opened
integrator_main(args, config, probes, ends) ==
    IF config = "invalid" THEN Exit(1, "JSONDecodeError", <<>>, <<>>)
    ELSE Let(StaticAnalysisIntegrator(probes), LAMBDA integrator :
        IF integrator.raised # "" THEN Exit(1, integrator.raised, <<>>, <<>>)
        ELSE Let(run_all_tools(integrator.tools, ends, args.file), LAMBDA ran :
            IF ran.raised # "" THEN Exit(1, ran.raised, <<>>, <<>>)
            ELSE Let(IF args.json
                     THEN export_results_json(ran.value, WorkingDirectory)
                     ELSE Returned(generate_compliance_report(ran.value)),
                     LAMBDA rendered :
                        IF rendered.raised # "" THEN Exit(1, rendered.raised, <<>>, <<>>)
                        ELSE IF args.output = "" THEN Exit(0, "", <<rendered.value>>, <<>>)
                        ELSE Exit(0, "", <<>>, <<rendered.value>>))))

\* what a tool's subprocess can do with a source file in that state: of a
\* file it cannot read it reports nothing
MainRunOutcomes(tool, file_state) ==
    IF file_state = "readable" THEN PairRunOutcomes(tool)
    ELSE {o \in RunOutcomes(tool) : o.stdout = NoOutput}

\* python compliance_checker.py [--code-file F | --code-string S] [--json]
\* [--output-file O]
CheckerMain ==
    /\ cli = <<>>
    /\ \E named \in {"", "file", "string"}, state \in FileStates, code \in Inputs,
          json \in BOOLEAN, output_file \in {"", "report.txt"} :
        /\ named # "file" => state = "readable"
        /\ named = "" => code = empty_code
        /\ \E args \in {[code_file |-> IF named = "file" THEN state ELSE "",
                         code_string |-> IF named = "string" THEN <<code>> ELSE <<>>,
                         code |-> code, json |-> json, output_file |-> output_file]} :
            \E ended_as \in {checker_main(args)} :
                cli' = <<[program |-> "compliance_checker",
                          file |-> IF named = "file" THEN state ELSE "",
                          json |-> json, output |-> output_file,
                          status |-> ended_as.status, raised |-> ended_as.raised,
                          printed |-> ended_as.printed, written |-> ended_as.written]>>
    /\ UNCHANGED <<checkerVars, integratorVars, pairVars>>

\* python static_analysis_integration.py --file F [--json] [--output O]
IntegratorMain ==
    /\ cli = <<>>
    /\ \E state \in FileStates, json \in BOOLEAN, output \in {"", "report.txt"},
          config \in {"absent", "valid", "invalid"},
          probes \in [ToolSet -> {"exit_0", "not_found"}] :
        \E made \in {StaticAnalysisIntegrator(probes)} :
            \E o1 \in IF made.tools[ToolOrder[1]] THEN MainRunOutcomes(ToolOrder[1], state) ELSE {NotRun},
               o2 \in IF made.tools[ToolOrder[2]] THEN MainRunOutcomes(ToolOrder[2], state) ELSE {NotRun},
               o3 \in IF made.tools[ToolOrder[3]] THEN MainRunOutcomes(ToolOrder[3], state) ELSE {NotRun},
               o4 \in IF made.tools[ToolOrder[4]] THEN MainRunOutcomes(ToolOrder[4], state) ELSE {NotRun} :
                \E ended_as \in {integrator_main([file |-> "flight.c", json |-> json, output |-> output],
                                                 config, probes, OutcomeMap(o1, o2, o3, o4))} :
                    cli' = <<[program |-> "static_analysis_integration",
                              file |-> state, json |-> json, output |-> output,
                              status |-> ended_as.status, raised |-> ended_as.raised,
                              printed |-> ended_as.printed, written |-> ended_as.written]>>
    /\ UNCHANGED <<checkerVars, integratorVars, pairVars>>

(***************************************************************************)
(* Spec: one checker at a time, created, loaded and run any number of      *)
(* times on the inputs.                                                    *)
(***************************************************************************)

NoIntegrator ==
    /\ tools = <<>>
    /\ probed = <<>>
    /\ results = <<>>
    /\ launched = {}
    /\ parsed = {}
    /\ report = <<>>
    /\ export = <<>>
    /\ raised = ""
    /\ ipc = "none"
    /\ ended = <<>>

NoPair ==
    /\ other = <<>>
    /\ focal = ""

NoMain == cli = <<>>

Init ==
    /\ code_lines = <<>>
    /\ violations = <<>>
    /\ score = <<>>
    /\ level = <<>>
    /\ pc = "new"
    /\ ref = <<>>
    /\ printout = <<>>
    /\ NoIntegrator
    /\ NoPair
    /\ NoMain

Next ==
    \/ NewChecker
    \/ LoadCode
    \/ CheckAllRules
    \/ CalculateScore
    \/ GetLevel

Spec == Init /\ [][Next]_vars

(***************************************************************************)
(* SpecRerun: the same, on the inputs that are analysed again and again,   *)
(* with a caller that keeps one analysis to compare the later ones with.   *)
(***************************************************************************)

NextRerun ==
    \/ NewChecker
    \/ LoadCodeAgain
    \/ CheckAllRules
    \/ CalculateScore
    \/ GetLevel
    \/ RenderReport
    \/ KeepAnalysis

SpecRerun == Init /\ [][NextRerun]_vars

(***************************************************************************)
(* SpecTools: main's use of one integrator: constructed, run on a file,    *)
(* then reported and exported.                                             *)
(***************************************************************************)

NextTools ==
    \/ NewIntegrator
    \/ RunAllTools
    \/ RunAdapter
    \/ ParseOutput
    \/ GenerateReport
    \/ ExportJson

SpecTools == Init /\ [][NextTools]_vars

(***************************************************************************)
(* SpecPair: two integrators run side by side on the same file.            *)
(***************************************************************************)

NextPair ==
    \/ NewIntegratorPair
    \/ RunAllToolsPair

SpecPair == Init /\ [][NextPair]_vars

(***************************************************************************)
(* SpecMain: one run of either command line.                               *)
(***************************************************************************)

NextMain ==
    \/ CheckerMain
    \/ IntegratorMain

SpecMain == Init /\ [][NextMain]_vars

(***************************************************************************)
(* SpecScore: scoring and classification as functions of the violation     *)
(* list.  self.violations is a public attribute, so the lists range over   *)
(* every sequence of up to MaxViolations violations, in any order, of      *)
(* violations the rules build, one of each severity.                       *)
(***************************************************************************)

MaxViolations == 7

SampleViolations ==
    { check_rule_1_flow_control(<<"goto fail;">>)[1],
      check_rule_5_pointer_dereferencing(<<"char ***p;">>)[1],
      check_rule_9_assignment_expressions(<<"if (x = 3) {">>)[1],
      check_rule_8_preprocessor(<<"#define N 4">>)[1] }

ViolationLists == UNION {[1..n -> SampleViolations] : n \in 0..MaxViolations}

InitScore ==
    /\ code_lines = <<>>
    /\ violations \in ViolationLists
    /\ score = <<>>
    /\ level = <<>>
    /\ pc = "checked"
    /\ ref = <<>>
    /\ printout = <<>>
    /\ NoIntegrator
    /\ NoPair
    /\ NoMain

NextScore ==
    \/ CalculateScore
    \/ GetLevel

SpecScore == InitScore /\ [][NextScore]_vars

(***************************************************************************)
(* Properties of scoring and classification (SpecScore)                    *)
(***************************************************************************)

\* the number of violations of a severity in a list
SeverityCount(vs, severity) ==
    Cardinality({i \in 1..Len(vs) : vs[i].severity = severity})

\* the sum of the canonical weights of a list: minor 2, moderate 5, major 10,
\* critical 15
WeightSum(vs) ==
    2 * SeverityCount(vs, "minor") + 5 * SeverityCount(vs, "moderate")
    + 10 * SeverityCount(vs, "major") + 15 * SeverityCount(vs, "critical")

\* the list with the violations at i and i + 1 exchanged
Exchanged(vs, i) ==
    [k \in 1..Len(vs) |-> IF k = i THEN vs[i + 1] ELSE IF k = i + 1 THEN vs[i] ELSE vs[k]]

\* C1: for every violation list the score calculate_compliance_score returned
\* is an integer in 0..100; when the penalties sum to more than 100 the score
\* is exactly 0 and the level get_compliance_level returned is non_compliant.
C1_ScoreWithinBounds ==
    /\ score # <<>> =>
          /\ score[1] \in 0..100
          /\ WeightSum(violations) > 100 => score[1] = 0
    /\ (level # <<>> /\ WeightSum(violations) > 100) => level[1] = "non_compliant"

\* seven critical violations, scored and classified
C1_Witness ==
    /\ Len(violations) = 7
    /\ SeverityCount(violations, "critical") = 7
    /\ score = <<0>>
    /\ level = <<"non_compliant">>

\* C2: the score returned equals max(0, 100 - sum of the weights of the
\* violations) with the weights minor 2, moderate 5, major 10, critical 15.
C2_ScoreFormula ==
    score # <<>> =>
        score[1] = (IF 100 - WeightSum(violations) > 0
                    THEN 100 - WeightSum(violations) ELSE 0)

\* a list with every severity in it, scored above the clamp
C2_Witness ==
    /\ score # <<>> /\ score[1] > 0
    /\ \A severity \in Severity : SeverityCount(violations, severity) > 0

\* C3: the level returned is fully_compliant iff s >= 90, minor_issues iff
\* 80 <= s < 90, moderate_issues iff 70 <= s < 80, major_issues iff
\* 60 <= s < 70 and non_compliant iff s < 60, where s is the score of the same
\* violation list (the one calculate_compliance_score returned, when it did).
C3_LevelThresholds ==
    level # <<>> =>
        \E s \in {calculate_compliance_score(violations)} :
            /\ score # <<>> => score[1] = s
            /\ level[1] \in ComplianceLevels
            /\ level[1] = "fully_compliant" <=> s >= 90
            /\ level[1] = "minor_issues" <=> (80 <= s /\ s < 90)
            /\ level[1] = "moderate_issues" <=> (70 <= s /\ s < 80)
            /\ level[1] = "major_issues" <=> (60 <= s /\ s < 70)
            /\ level[1] = "non_compliant" <=> s < 60

\* a list scored exactly at the threshold 90 and classified
C3_Witness ==
    /\ score = <<90>>
    /\ level = <<"fully_compliant">>

\* C4: the score and the level returned for a violation list are the ones
\* calculate_compliance_score and get_compliance_level give, without failing,
\* for the list with any two neighbours exchanged; every list is an initial
\* state, so the same holds for every permutation, which is a chain of such
\* exchanges.
C4_OrderIndependent ==
    (score # <<>> /\ level # <<>>) =>
        \A i \in 1..(Len(violations) - 1) :
            \E reordered \in {Exchanged(violations, i)} :
                /\ calculate_compliance_score(reordered) \in 0..100
                /\ calculate_compliance_score(reordered) = score[1]
                /\ get_compliance_level(reordered) \in ComplianceLevels
                /\ get_compliance_level(reordered) = level[1]

\* a list whose first two violations differ in severity, scored and classified
C4_Witness ==
    /\ Len(violations) >= 2
    /\ violations[1].severity # violations[2].severity
    /\ score # <<>>
    /\ level # <<>>

(***************************************************************************)
(* Properties of the analysis (Spec, SpecRerun)                            *)
(***************************************************************************)

\* C5: an analysis of the text of the kept analysis - on a new checker, after
\* other texts were loaded and analysed, or by check_all_rules once more -
\* gives the kept ordered violation list, score and level.
C5_SameTextSameAnalysis ==
    (ref # <<>> /\ pc = "checked" /\ code_lines = ref[1].code_lines) =>
        /\ violations = ref[1].violations
        /\ score # <<>> => score[1] = ref[1].score
        /\ level # <<>> => level[1] = ref[1].level

\* the text of the kept analysis analysed again (the score was dropped by a
\* later check_all_rules) and classified, with violations to repeat
C5_Witness ==
    /\ ref # <<>> /\ pc = "checked" /\ code_lines = ref[1].code_lines
    /\ ref[1].violations # <<>>
    /\ score = <<>>
    /\ level # <<>>

\* C6: after load_code("") and check_all_rules the violation list is empty,
\* the score is 100 and the level fully_compliant.
C6_EmptySourceClean ==
    (pc = "checked" /\ code_lines = Split(empty_code)) =>
        /\ violations = <<>>
        /\ score # <<>> => score[1] = 100
        /\ level # <<>> => level[1] = "fully_compliant"

\* the empty text analysed, scored and classified
C6_Witness ==
    /\ pc = "checked" /\ code_lines = <<"">>
    /\ score = <<100>>
    /\ level = <<"fully_compliant">>

\* C7: after load_code and check_all_rules on the compliant source of
\* test_compliant_code there is no violation, the score is 100 and the level
\* fully_compliant.
C7_CompliantCodeClean ==
    (pc = "checked" /\ code_lines = Split(compliant_code)) =>
        /\ violations = <<>>
        /\ score # <<>> => score[1] = 100
        /\ level # <<>> => level[1] = "fully_compliant"

(***************************************************************************)
(* Properties of the integrator (SpecTools, SpecPair)                      *)
(***************************************************************************)

\* whether the text report has a line saying that the tool has n violations
ReportCounts(text, tool, n) ==
    \E lines \in {SplitOn(text, "\n")} :
        \E k \in 1..Len(lines) : lines[k] = tool \o ": " \o ToString(n) \o " violations"

\* whether the export lists the tool with n results
ExportCounts(data, tool, n) ==
    \E k \in 1..Len(data.results_by_tool) :
        /\ data.results_by_tool[k].tool = tool
        /\ Len(data.results_by_tool[k].entries) = n

\* C8: for every tool whose probe returned false, run_all_tools launched no
\* analysis subprocess of it and did not call its parser, nothing was raised,
\* and the text report and the JSON export, once made, list the tool with a
\* count of 0.
C8_UnavailableToolCountsZero ==
    ipc = "ran" =>
        \A t \in ToolSet :
            ~tools[t] =>
                /\ t \notin launched
                /\ t \notin parsed
                /\ raised = ""
                /\ report # <<>> => ReportCounts(report[1], t, 0)
                /\ export # <<>> => ExportCounts(export[1], t, 0)

\* the list run_all_tools recorded for a tool: <<>> when the dict has no such
\* key, <<list>> when it has
ResultFor(by_tool, tool) ==
    IF \E k \in 1..Len(by_tool) : by_tool[k].tool = tool
    THEN <<(CHOOSE entry \in {by_tool[k] : k \in 1..Len(by_tool)} : entry.tool = tool).findings>>
    ELSE <<>>

\* C9: in two runs of run_all_tools in which the focal tool is equally
\* available and its subprocess ends alike, whatever the availability and the
\* outcomes (timeout, crash, malformed output, findings) of the other three
\* tools in either run, the list recorded for the focal tool is the same, it
\* is recorded exactly when the tool is available, and neither run raises.
C9_AdaptersIndependent ==
    (ipc = "ran" /\ other # <<>>) =>
        /\ raised = "" /\ other[1].raised = ""
        /\ ResultFor(results, focal) = ResultFor(other[1].results, focal)
        /\ ResultFor(results, focal) # <<>> <=> tools[focal]

\* two runs with findings of the focal tool in which the other tools differ in
\* availability and in results, and one of them was launched and not parsed
C9_Witness ==
    /\ ipc = "ran" /\ other # <<>>
    /\ ResultFor(results, focal) # <<>> /\ ResultFor(results, focal)[1] # <<>>
    /\ tools # other[1].tools
    /\ \E t \in ToolSet \ {focal} :
          ResultFor(results, t) # <<>> /\ ResultFor(other[1].results, t) # <<>>
          /\ ResultFor(results, t) # ResultFor(other[1].results, t)
    /\ \E t \in ToolSet \ {focal} : t \in launched \ parsed

\* C10: every construction of the integrator probes all four tools, raises
\* nothing and leaves a boolean for each tool, whatever way each
\* `<tool> --version` launch ended.
C10_ProbesNeverRaise ==
    (probed # <<>> /\ ipc \in {"none", "constructed"}) =>
        /\ raised = ""
        /\ probed = ToolOrder
        /\ DOMAIN tools = ToolSet
        /\ \A t \in ToolSet : tools[t] \in BOOLEAN

\* the list an adapter called by itself returned
AdapterList == results[1].findings

\* C11: an available adapter whose subprocess times out, cannot be launched
\* or exits with a code that is not parsed returns the empty list and raises
\* nothing; cppcheck, clang-tidy and splint return for exit code 1 what they
\* return for exit code 0 with the same output, and flawfinder parses on exit
\* code 0 only.  In run_all_tools every available adapter is launched and
\* gets its key, whatever the ones before it did, and those that were
\* launched and not parsed have the empty list.
C11_AdapterFailSoft ==
    /\ (ipc = "ran_one" /\ tools[ended[1].tool]) =>
          \E t \in {ended[1].tool}, o \in {ended[1].outcome} :
              /\ raised = ""
              /\ t \in launched
              /\ o.kind \in {"timeout", "os_error"} => (AdapterList = <<>> /\ t \notin parsed)
              /\ (o.kind = "exit" /\ o.returncode \notin {0, 1}) =>
                    (AdapterList = <<>> /\ t \notin parsed)
              /\ (o.kind = "exit" /\ o.returncode = 1 /\ t # "flawfinder") =>
                    /\ t \in parsed
                    /\ \A file_path \in FilePaths :
                          AdapterList = run_tool(t, TRUE, [o EXCEPT !.returncode = 0], file_path).value
              /\ (o.kind = "exit" /\ o.returncode = 1 /\ t = "flawfinder") =>
                    (AdapterList = <<>> /\ t \notin parsed)
              /\ (o.kind = "exit" /\ o.returncode = 0) => t \in parsed
    /\ ipc = "ran" =>
          /\ launched = {t \in ToolSet : tools[t]}
          /\ \A t \in launched : ResultFor(results, t) # <<>>
          /\ \A t \in launched \ parsed : ResultFor(results, t) = << <<>> >>

\* run_all_tools in which an adapter was launched and not parsed (timeout,
\* launch failure or unparsed exit code) and a later adapter has findings
C11_Witness ==
    /\ ipc = "ran"
    /\ \E k \in 1..Len(ToolOrder), j \in 1..Len(ToolOrder) :
          /\ k < j
          /\ ToolOrder[k] \in launched \ parsed
          /\ ResultFor(results, ToolOrder[j]) # <<>>
          /\ ResultFor(results, ToolOrder[j])[1] # <<>>

\* C12: a parser called on any raw output returns a list and raises nothing,
\* and the list is empty unless the output is well-formed with findings in it.
C12_ParsersNeverRaise ==
    ipc = "parsed" =>
        /\ raised = ""
        /\ results # <<>>
        /\ ended[1].outcome.stdout.form # "entries" => AdapterList = <<>>
        /\ ended[1].outcome.stdout.form = "entries" =>
              Len(AdapterList) = Len(ended[1].outcome.stdout.entries)

\* the message keywords of the splint and flawfinder tables, each with its
\* category
splint_keywords ==
    { <<"uninitialized", "rule_6">>, <<"null pointer", "rule_5">>,
      <<"memory leak", "rule_3">>, <<"array bounds", "style_bounds_checking">>,
      <<"unused", "style_unused_code">>, <<"type", "style_types">> }

flawfinder_keywords ==
    { <<"buffer overflow", "style_bounds_checking">>, <<"format string", "style_security">>,
      <<"race condition", "style_concurrency">>, <<"command injection", "style_security">> }

\* the table of the adapter stored under a key of the results
TableOf(tool) ==
    CASE tool = "cppcheck" -> cppcheck_mapping
      [] tool = "clang_tidy" -> clang_tidy_mapping
      [] tool = "splint" -> splint_keywords
      [] tool = "flawfinder" -> flawfinder_keywords

\* whether an entry of the adapter's table matches the finding: its rule id
\* exactly, or its message by a keyword in it
MatchesTable(tool, finding) ==
    IF tool \in {"cppcheck", "clang_tidy"}
    THEN \E pair \in TableOf(tool) : pair[1] = finding.rule_id
    ELSE \E pair \in TableOf(tool) : Contains(Lower(finding.message), pair[1])

\* C13: every finding an adapter or a parser returned has a category of its
\* adapter's table or style_general, and style_general when no entry of the
\* table matches its rule id or message.
C13_UnmappedIsGeneral ==
    ipc \in {"ran", "ran_one", "parsed"} =>
        \A k \in 1..Len(results) :
            \A j \in 1..Len(results[k].findings) :
                \E t \in {results[k].tool}, finding \in {results[k].findings[j]} :
                    /\ finding.category \in {pair[2] : pair \in TableOf(t)} \cup {"style_general"}
                    /\ ~MatchesTable(t, finding) => finding.category = "style_general"

\* int(s) for a string of decimal digits
RECURSIVE NumberIn(_)
NumberIn(s) ==
    IF s = "" THEN 0
    ELSE 10 * NumberIn(Slice(s, 1, Len(s) - 1))
         + (CHOOSE d \in 0..9 : ToString(d) = Ch(s, Len(s)))

\* the n of a report line `<name>: <n> violations`, 0 for any other line
CountOnLine(line) ==
    Let(line, LAMBDA v :
        Let(LastIndex(1, Len(v), LAMBDA i : StartsWithAt(v, i, ": ")), LAMBDA colon :
            IF colon > 0 /\ Len(v) >= 11 /\ StartsWithAt(v, Len(v) - 10, " violations")
            THEN NumberIn(Slice(v, colon + 2, Len(v) - 11))
            ELSE 0))

\* the index of the first line that is the text, 0 when there is none
IndexOfLine(lines, text) == FirstIndex(1, Len(lines), LAMBDA k : lines[k] = text)

\* the sum of the counts on the lines strictly between two lines
SectionSum(lines, lo, hi) ==
    SumFor(Len(lines), LAMBDA k : IF k > lo /\ k < hi THEN CountOnLine(lines[k]) ELSE 0)

\* the four counts the text report carries: its total, the sum of its
\* per-tool lines, the sum of its per-category lines, and the number of
\* findings it details
ReportTotals(text) ==
    Let(SplitOn(text, "\n"), LAMBDA lines :
        Let(<<FirstIndex(1, Len(lines), LAMBDA k : StartsWith(lines[k], "Total Violations Found: ")),
              IndexOfLine(lines, "VIOLATIONS BY TOOL:"),
              IndexOfLine(lines, "VIOLATIONS BY CATEGORY:"),
              IF IndexOfLine(lines, "DETAILED VIOLATIONS:") > 0
              THEN IndexOfLine(lines, "DETAILED VIOLATIONS:")
              ELSE IndexOfLine(lines, "No violations detected!")>>,
            LAMBDA at :
                [found |-> at[1] > 0 /\ at[2] > at[1] /\ at[3] > at[2] /\ at[4] > at[3],
                 total |-> NumberIn(Slice(lines[at[1]], 25, Len(lines[at[1]]))),
                 by_tool |-> SectionSum(lines, at[2], at[3]),
                 by_category |-> SectionSum(lines, at[3], at[4]),
                 detailed |-> Cardinality({k \in (at[4] + 1)..Len(lines) :
                                              StartsWith(lines[k], "     Category: ")})]))

\* C14: in the text report the total, the sum of the per-tool counts, the sum
\* of the per-category counts and the number of detailed findings are the
\* number of findings in the results; in the export total_violations and the
\* number of entries are that number too, tool by tool.
C14_CountsAgree ==
    /\ report # <<>> =>
          \E counted \in {ReportTotals(report[1])} :
              /\ counted.found
              /\ counted.total = TotalViolations(results)
              /\ counted.by_tool = counted.total
              /\ counted.by_category = counted.total
              /\ counted.detailed = counted.total
    /\ export # <<>> =>
          /\ export[1].total_violations = TotalViolations(results)
          /\ Len(export[1].results_by_tool) = Len(results)
          /\ \A k \in 1..Len(results) :
                Len(export[1].results_by_tool[k].entries) = Len(results[k].findings)

\* a report and an export of results in which cppcheck and splint flag the
\* same leak on the same line, under the same category
C14_Witness ==
    /\ report # <<>> /\ export # <<>>
    /\ ResultFor(results, "cppcheck") # <<>> /\ ResultFor(results, "splint") # <<>>
    /\ ResultFor(results, "cppcheck")[1] # <<>> /\ ResultFor(results, "splint")[1] # <<>>
    /\ \E a \in {ResultFor(results, "cppcheck")[1][1]}, b \in {ResultFor(results, "splint")[1][1]} :
          /\ a.line_number = b.line_number
          /\ a.category = b.category
          /\ a.message = b.message
    /\ export[1].total_violations >= 2

\* C15: after run_all_tools, whatever lists it recorded, neither
\* generate_compliance_report nor export_results_json raises: no exception
\* is on record once the pipeline has run.
C15_RenderingsProduced ==
    ipc = "ran" => raised = ""

\* C16: a run of either command line whose source file is missing or cannot
\* be read ends with a non-zero status and has produced no report: nothing
\* printed on stdout and nothing written to the output file.
C16_MissingFileFatal ==
    (cli # <<>> /\ cli[1].file \in {"missing", "unreadable"}) =>
        /\ cli[1].status # 0
        /\ cli[1].printed = <<>>
        /\ cli[1].written = <<>>

\* C17: after check_all_rules, every line that contains goto and is not a //
\* comment has a rule_1 violation of severity critical reported at its
\* 1-indexed line number.
C17_GotoIsRule1Critical ==
    pc = "checked" =>
        \A i \in 1..Len(code_lines) :
            (Contains(code_lines[i], "goto") /\ ~StartsWith(Strip(code_lines[i]), "//")) =>
                \E k \in 1..Len(violations) :
                    /\ violations[k].rule_id = "rule_1"
                    /\ violations[k].severity = CRITICAL
                    /\ violations[k].line_number = i

\* the goto source of the test analysed: `if (x < 0) goto error;` is its
\* line 4 and is reported there
C17_Witness ==
    /\ pc = "checked"
    /\ code_lines = Split(goto_code)
    /\ code_lines[4] = "    if (x < 0) goto error;"
    /\ \E k \in 1..Len(violations) :
          /\ violations[k].rule_id = "rule_1"
          /\ violations[k].description = "Use of goto statement detected"
          /\ violations[k].line_number = 4

\* test_rule_specific_violations:
\* [v for v in violations if 'malloc' in v.description.lower()]
malloc_violations(vs) ==
    SelectSeq(vs, LAMBDA v : Contains(Lower(v.description), "malloc"))

\* the lines of the source that hold text outside a // comment
LinesWith(text) ==
    {i \in 1..Len(code_lines) :
        Contains(code_lines[i], text) /\ ~StartsWith(Strip(code_lines[i]), "//")}

\* C18: after check_all_rules on a source with `malloc(100);` and `free(ptr);`
\* on non-comment lines, each such line has exactly one rule_3 violation of
\* severity critical, and the test's selection of the malloc violation among
\* the returned violations is not empty.
C18_MallocIdentified ==
    (pc = "checked" /\ LinesWith("malloc(100);") # {} /\ LinesWith("free(ptr);") # {}) =>
        /\ \A i \in LinesWith("malloc(100);") \cup LinesWith("free(ptr);") :
              Cardinality({k \in 1..Len(violations) :
                              /\ violations[k].rule_id = "rule_3"
                              /\ violations[k].severity = CRITICAL
                              /\ violations[k].line_number = i}) = 1
        /\ malloc_violations(violations) # <<>>

\* C19: after check_all_rules, a line `while (1) { x++; }` has a rule_2
\* violation of severity major at its line number whose description speaks
\* of a loop without upper bound or of an infinite loop.
C19_WhileOneIsRule2Major ==
    pc = "checked" =>
        \A i \in 1..Len(code_lines) :
            Contains(code_lines[i], "while (1) { x++; }") =>
                \E k \in 1..Len(violations) :
                    /\ violations[k].rule_id = "rule_2"
                    /\ violations[k].severity = MAJOR
                    /\ violations[k].line_number = i
                    /\ \/ Contains(Lower(violations[k].description), "without clear upper bound")
                       \/ Contains(Lower(violations[k].description), "infinite loop")

\* the one-line source `while (1) { x++; }` analysed: both loop findings
C19_Witness ==
    /\ pc = "checked"
    /\ code_lines = <<"while (1) { x++; }">>
    /\ Len(violations) >= 2
    /\ violations[1].description = "Loop without clear upper bound detected"
    /\ violations[2].description = "Potential infinite loop detected"
    /\ violations[1].rule_id = "rule_2" /\ violations[2].rule_id = "rule_2"

\* the rule ids in the order check_all_rules calls their checks
RuleOrder ==
    << "rule_1", "rule_2", "rule_3", "rule_4", "rule_5", "rule_6", "rule_7",
       "rule_8", "rule_9", "rule_10", "style_naming", "style_function_length",
       "style_comments", "style_error_handling", "style_type_safety" >>

\* the place of a rule id in that order, 0 for an id that is not in it
RuleRank(rule_id) ==
    IF \E r \in 1..Len(RuleOrder) : RuleOrder[r] = rule_id
    THEN CHOOSE r \in 1..Len(RuleOrder) : RuleOrder[r] = rule_id
    ELSE 0

\* C20: the list check_all_rules returned is in detection order: the rule ids
\* follow the order rule_1 .. rule_10, style_naming, style_function_length,
\* style_comments, style_error_handling, style_type_safety, and within one
\* rule id the line numbers never decrease.
C20_DetectionOrder ==
    pc = "checked" =>
        \A j, k \in 1..Len(violations) :
            j < k =>
                /\ RuleRank(violations[j].rule_id) > 0
                /\ RuleRank(violations[j].rule_id) <= RuleRank(violations[k].rule_id)
                /\ violations[j].rule_id = violations[k].rule_id =>
                      violations[j].line_number <= violations[k].line_number

\* a returned list where a major violation stands before a critical one, two
\* violations of one rule are on different lines, and a later rule reports
\* an earlier line
C20_Witness ==
    /\ pc = "checked"
    /\ \E j, k \in 1..Len(violations) :
          j < k /\ violations[j].severity = MAJOR /\ violations[k].severity = CRITICAL
    /\ \E j, k \in 1..Len(violations) :
          /\ j < k
          /\ violations[j].rule_id = violations[k].rule_id
          /\ violations[j].line_number < violations[k].line_number
    /\ \E j, k \in 1..Len(violations) :
          /\ j < k
          /\ violations[j].rule_id # violations[k].rule_id
          /\ violations[j].line_number > violations[k].line_number

\* two functions reported by rule_7, each at the line it starts on
C20_WitnessRule7 ==
    /\ pc = "checked"
    /\ \E j, k \in 1..Len(violations) :
          /\ j < k
          /\ violations[j].rule_id = "rule_7" /\ violations[k].rule_id = "rule_7"
          /\ violations[j].line_number = 1 /\ violations[k].line_number = 5

\* the first line after signature line s that is a signature line or is
\* exactly "}" after trimming, 0 when there is none
RecordEnd(s) ==
    FirstIndex(s + 1, Len(code_lines), LAMBDA e :
        IsFunctionStart(code_lines[e]) \/ Strip(code_lines[e]) = "}")

\* the lines between s and e that contain return and are no // comment
ReturnLines(s, e) ==
    {k \in (s + 1)..(e - 1) :
        Contains(code_lines[k], "return") /\ ~StartsWith(Strip(code_lines[k]), "//")}

\* the rule_7 violations reported at line s
Rule7At(s) ==
    {k \in 1..Len(violations) :
        violations[k].rule_id = "rule_7" /\ violations[k].line_number = s}

\* C21: after check_all_rules, rule_7 has kept one open-function record: a
\* signature line opens it with count 0, the first later line that is exactly
\* "}" closes it, and exactly one moderate rule_7 violation stands at the
\* signature's line iff more than one line in between contains return outside
\* a // comment; lines after the closing line are not counted, and rule_7
\* reports at no other line.
C21_OneOpenRecord ==
    pc = "checked" =>
        /\ \A k \in 1..Len(violations) :
              violations[k].rule_id = "rule_7" =>
                  /\ violations[k].severity = MODERATE
                  /\ violations[k].line_number \in 1..Len(code_lines)
                  /\ IsFunctionStart(code_lines[violations[k].line_number])
        /\ \A s \in 1..Len(code_lines) :
              IsFunctionStart(code_lines[s]) =>
                  Let(RecordEnd(s), LAMBDA e :
                      Cardinality(Rule7At(s)) =
                          IF /\ e > 0
                             /\ Strip(code_lines[e]) = "}"
                             /\ Cardinality(ReturnLines(s, e)) > 1
                          THEN 1 ELSE 0)

\* a function of three return lines whose inner block closes at line 4: the
\* record closes there with one return counted, and rule_7 reports nothing
C21_Witness ==
    /\ pc = "checked"
    /\ Len(code_lines) = 6
    /\ IsFunctionStart(code_lines[1])
    /\ RecordEnd(1) = 4
    /\ Cardinality(ReturnLines(1, 4)) = 1
    /\ Cardinality(ReturnLines(1, 7)) = 2
    /\ Rule7At(1) = {}

\* the last line of the function opened at signature line s: the line before
\* the next signature line, or the last line of the source
BodyEnd(s) ==
    Let(FirstIndex(s + 1, Len(code_lines), LAMBDA e : IsFunctionStart(code_lines[e])),
        LAMBDA e : IF e = 0 THEN Len(code_lines) ELSE e - 1)

\* C22: after check_all_rules, a rule_1 violation "Recursive function call
\* detected" stands only at a function signature line, and the name of that
\* function followed by "(" is on a non-comment line of the function's own
\* body; a call from a later function, or a block header, gives none.
C22_RecursionInOwnBody ==
    pc = "checked" =>
        \A k \in 1..Len(violations) :
            violations[k].description = "Recursive function call detected" =>
                Let(violations[k].line_number, LAMBDA s :
                    /\ IsFunctionStart(code_lines[s])
                    /\ \E j \in (s + 1)..BodyEnd(s) :
                          /\ Contains(code_lines[j], FunctionNameIn(code_lines[s]) \o "(")
                          /\ ~StartsWith(Strip(code_lines[j]), "//"))

\* whether line j starts, after trimming, with // or /*
IsCommentLine(j) ==
    Let(Strip(code_lines[j]), LAMBDA stripped :
        StartsWith(stripped, "//") \/ StartsWith(stripped, "/*"))

\* C23: after check_all_rules, a function signature at line i has a
\* style_comments violation exactly when none of the lines i-3, i-2, i-1 that
\* exist is a comment line.
C23_HeaderCommentWindow ==
    pc = "checked" =>
        \A i \in 1..Len(code_lines) :
            SigCloseAt(code_lines[i], 1) > 0 =>
                ((\E k \in 1..Len(violations) :
                      /\ violations[k].rule_id = "style_comments"
                      /\ violations[k].line_number = i)
                 <=> ~\E j \in 1..(i - 1) : j >= i - 3 /\ IsCommentLine(j))

\* whether the character at k of line is an "=" that belongs to none of
\* ==, <=, >=, !=
IsBareAssign(line, k) ==
    /\ Ch(line, k) = "="
    /\ Ch(line, k + 1) # "="
    /\ Ch(line, k - 1) \notin {"=", "<", ">", "!"}

\* whether line has a while/if condition, from its "(" to the next ")", with
\* a bare "=" in it
HasAssignInCondition(line) ==
    \E i \in 1..Len(line) :
        \E kw \in {"while", "if"} :
            /\ StartsWithAt(line, i, kw)
            /\ Let(RunEnd(line, i + Len(kw), IsSpace), LAMBDA p :
                  /\ Ch(line, p) = "("
                  /\ Let(CloseParen(line, p), LAMBDA c :
                        c > 0 /\ \E k \in (p + 1)..(c - 1) : IsBareAssign(line, k)))

\* C24: after check_all_rules, a line has a rule_9 violation, of severity
\* moderate, exactly when it has a while/if condition containing a bare "=";
\* a condition whose "=" all belong to ==, <=, >= or != has none.
C24_AssignmentNotComparison ==
    pc = "checked" =>
        \A i \in 1..Len(code_lines) :
            /\ (\E k \in 1..Len(violations) :
                    violations[k].rule_id = "rule_9" /\ violations[k].line_number = i)
               <=> HasAssignInCondition(code_lines[i])
            /\ \A k \in 1..Len(violations) :
                    violations[k].rule_id = "rule_9" => violations[k].severity = MODERATE

\* C25: every finding in the map run_all_tools returned carries the key it is
\* stored under as its tool_name, so grouping by key and grouping by
\* tool_name use the same labels.
C25_ToolNameIsKey ==
    ipc = "ran" =>
        \A k \in 1..Len(results) :
            \A j \in 1..Len(results[k].findings) :
                results[k].findings[j].tool_name = results[k].tool

\* C26: the list an adapter run by itself returned is all or nothing: when
\* the parse failed after diagnostics had been turned into findings the list
\* is empty, and when the parser was called on well-formed output and
\* returned, the list has one finding per diagnostic of the output, in the
\* output's order; it is never a proper part of them.
C26_AllOrNothing ==
    (ipc = "ran_one" /\ ended[1].outcome.kind = "exit") =>
        Let(ended[1].outcome.stdout, LAMBDA out :
            /\ raised = ""
            /\ out.form = "json_bad_tail" => AdapterList = <<>>
            /\ (out.form = "entries" /\ ended[1].tool \in parsed) =>
                  Len(AdapterList) = Len(out.entries)
            /\ AdapterList # <<>> =>
                  /\ Len(AdapterList) = Len(out.entries)
                  /\ \A j \in 1..Len(AdapterList) :
                        /\ AdapterList[j].message = out.entries[j].message
                        /\ AdapterList[j].line_number = out.entries[j].line)

\* clang-tidy's parser was called on two diagnostics followed by a number,
\* and the adapter returned the empty list
C26_Witness ==
    /\ ipc = "ran_one"
    /\ ended[1].tool = "clang_tidy"
    /\ "clang_tidy" \in parsed
    /\ ended[1].outcome.stdout.form = "json_bad_tail"
    /\ Len(ended[1].outcome.stdout.entries) = 2
    /\ AdapterList = <<>>

\* an adapter returned two findings in the order of the output
C26_WitnessAll ==
    /\ ipc = "ran_one"
    /\ Len(AdapterList) = 2
    /\ AdapterList[1].message = ended[1].outcome.stdout.entries[1].message
    /\ AdapterList[2].message = ended[1].outcome.stdout.entries[2].message
    /\ AdapterList[1].message # AdapterList[2].message

\* the keys of the map run_all_tools returned, in insertion order
ResultKeys == ConcatFor(Len(results), LAMBDA k : <<results[k].tool>>)

\* C27: an integrator has probed each tool once, in the order cppcheck,
\* clang_tidy, splint, flawfinder, and running the tools adds no probe; the
\* map run_all_tools returns has exactly the tools whose probe gave true as
\* its keys, in that order, whatever their analysis did, and no subprocess
\* of an unavailable tool was launched.
C27_ProbedOnceKeysAvailable ==
    /\ ipc # "none" => probed = ToolOrder
    /\ ipc = "ran" =>
          /\ ResultKeys = SelectSeq(ToolOrder, LAMBDA t : tools[t])
          /\ launched = {t \in ToolSet : tools[t]}

\* a run with an unavailable tool, an available tool that timed out and has
\* an empty list, and an available tool with a finding
C27_Witness ==
    /\ ipc = "ran"
    /\ \E t \in ToolSet : ~tools[t]
    /\ \E k \in 1..Len(results) : results[k].findings = <<>> /\ results[k].tool \notin parsed
    /\ \E k \in 1..Len(results) : results[k].findings # <<>>
    /\ Len(results) < Len(ToolOrder)

\* a step in which the caller received a score, a level or a report
ReadsAnalysis ==
    \/ score' # <<>> /\ score' # score
    \/ level' # <<>> /\ level' # level
    \/ printout' # <<>> /\ printout' # printout

\* C28: after load_code and until check_all_rules the violation list is
\* empty, the score 100 and the level fully_compliant, whatever the kept
\* analysis found; a step of calculate_compliance_score, get_compliance_level
\* or generate_report leaves the violation list and the lines as they were;
\* and the list a check_all_rules returned to the caller holds what it held
\* when it was returned, whatever was loaded or checked since.
C28_LoadResetsReadsKeep ==
    /\ [](pc = "loaded" =>
            /\ violations = <<>>
            /\ score # <<>> => score[1] = 100
            /\ level # <<>> => level[1] = "fully_compliant")
    /\ [](ref # <<>> => ref[1].list = ref[1].violations)
    /\ [][ReadsAnalysis => (violations' = violations /\ code_lines' = code_lines)]_vars

\* a text loaded after an analysis with violations was kept: scored 100,
\* classified, reported, and the kept list is what it was
C28_Witness ==
    /\ pc = "loaded"
    /\ ref # <<>>
    /\ ref[1].violations # <<>>
    /\ ref[1].list = ref[1].violations
    /\ ~ref[1].same
    /\ score = <<100>>
    /\ level = <<"fully_compliant">>
    /\ printout # <<>>

\* whether no line after line s is exactly "}" after trimming
NeverClosed(s) == \A e \in (s + 1)..Len(code_lines) : Strip(code_lines[e]) # "}"

\* C29: after check_all_rules, a function whose signature line is followed
\* by no line that is exactly "}" after trimming has neither a rule_7 nor a
\* style_function_length violation at its line, however many return lines
\* and body lines follow it.
C29_UnclosedFunctionSilent ==
    pc = "checked" =>
        \A s \in 1..Len(code_lines) :
            (IsFunctionStart(code_lines[s]) /\ NeverClosed(s)) =>
                \A k \in 1..Len(violations) :
                    violations[k].line_number = s =>
                        violations[k].rule_id \notin {"rule_7", "style_function_length"}

\* a function of more than fifty body lines and two return lines whose
\* closing brace ends the last return line: neither rule reports anything
C29_Witness ==
    /\ pc = "checked"
    /\ Len(code_lines) = FunctionLengthLimit + 4
    /\ IsFunctionStart(code_lines[1])
    /\ NeverClosed(1)
    /\ Contains(code_lines[Len(code_lines)], "return val; }")
    /\ Contains(code_lines[Len(code_lines) - 1], "return")
    /\ \A k \in 1..Len(violations) :
          violations[k].rule_id \notin {"rule_7", "style_function_length"}

\* the same function closed on a line of its own: both rules report it at
\* its signature line
C29_WitnessClosed ==
    /\ pc = "checked"
    /\ Len(code_lines) = FunctionLengthLimit + 5
    /\ \E k \in 1..Len(violations) :
          violations[k].rule_id = "rule_7" /\ violations[k].line_number = 1
    /\ \E k \in 1..Len(violations) :
          /\ violations[k].rule_id = "style_function_length"
          /\ violations[k].line_number = 1
          /\ violations[k].description = "Function is 54 lines long (exceeds 50 line limit)"

\* the first trigger of rule 2: a line that opens with `while (` and has
\* none of the bound tokens
LacksBound(line) ==
    /\ StartsWith(Strip(line), "while")
    /\ Let(Strip(line), LAMBDA stripped :
          Ch(stripped, RunEnd(stripped, 6, IsSpace)) = "(")
    /\ \A token \in {"MAX_", "count", "size", "length"} : ~Contains(line, token)

\* the second trigger of rule 2: a line with `while` and one of true, 1, !0
LoopsForever(line) ==
    /\ Contains(line, "while")
    /\ \E token \in {"true", "1", "!0"} : Contains(line, token)

\* the positions of the rule_2 violations reported at line i
Rule2At(i) ==
    {k \in 1..Len(violations) :
        violations[k].rule_id = "rule_2" /\ violations[k].line_number = i}

C30_WitnessOne ==
    /\ pc = "checked"
    /\ code_lines = <<"} while (1);">>
    /\ Cardinality(Rule2At(1)) = 1
    /\ score = <<90>>

====
